---- MODULE Spec2Model ----
(***************************************************************************)
(* A model of the in-memory file system of src/src/models/FileSystem.ts:   *)
(* the FileSystem class (one namespace: a tree of file and directory       *)
(* nodes) and the MountManager class (the mount table, the current         *)
(* directory, and the routing of every path to the responsible             *)
(* FileSystem).                                                            *)
(*                                                                         *)
(* A JavaScript string is a sequence of one-character strings, so that     *)
(* startsWith, substring, split and replace are computed character by      *)
(* character as the code computes them.  A Map<string, node> is a function *)
(* from names to nodes.  A node's parent back-reference is the parent's    *)
(* path (the empty string for null).  createdAt is left out.               *)
(***************************************************************************)
EXTENDS Integers, Sequences, FiniteSets, TLC

VARIABLES
    mounts,            \* MountManager.mounts: sequence of [path, filesystem]
    filesystems,       \* the FileSystem objects, by object identity
    currentDirectory,  \* MountManager.currentDirectory
    last,              \* the last call made and what it returned: [op, path, ret]
    calls,             \* number of calls made so far
    discarded          \* history: the FileSystems unmounted so far, each with
                       \* the path it was mounted at: {[path, root]}

vars == <<mounts, filesystems, currentDirectory, last, calls, discarded>>

\* The number of calls a run of Spec makes.
MaxCalls == 3

\* The number of calls a run of MountSpec makes.
MaxMountCalls == 4

\* The number of calls a run of NamespaceSpec makes.
MaxNamespaceCalls == 3

\* The length of the longest path that NormalizeSpec draws from every
\* string over its alphabet.
MaxPathLen == 4

-----------------------------------------------------------------------------
(* String primitives of JavaScript.                                        *)

EmptyString == <<>>
Slash == <<"/">>

startsWith(s, prefix) ==
    Len(prefix) <= Len(s) /\ SubSeq(s, 1, Len(prefix)) = prefix

\* s.substring(from)
substring(s, from) == SubSeq(s, from + 1, Len(s))

\* s.substring(from, to)
substring2(s, from, to) == SubSeq(s, from + 1, to)

\* s.lastIndexOf('/'), 0-based, -1 when there is none
lastIndexOfSlash(s) ==
    LET I == {i \in 1..Len(s) : s[i] = "/"}
    IN IF I = {} THEN -1 ELSE (CHOOSE i \in I : \A j \in I : j <= i) - 1

\* s.replace(/\/+/g, '/')
RECURSIVE collapseSlashes(_)
collapseSlashes(s) ==
    IF Len(s) < 2 THEN s
    ELSE IF s[1] = "/" /\ s[2] = "/" THEN collapseSlashes(Tail(s))
    ELSE <<s[1]>> \o collapseSlashes(Tail(s))

\* s.split('/'): the segments between the separators, empty ones included
RECURSIVE split(_)
split(s) ==
    LET I == {i \in 1..Len(s) : s[i] = "/"}
    IN IF I = {} THEN <<s>>
       ELSE LET i == CHOOSE k \in I : \A j \in I : k <= j
            IN <<SubSeq(s, 1, i - 1)>> \o split(SubSeq(s, i + 1, Len(s)))

\* The segments without the filter: the variant that keeps the empty ones.
filterNonEmpty_keepingAll(segments) == segments

\* .filter(seg => seg !== '')
filterNonEmpty(segments) == SelectSeq(segments, LAMBDA seg : seg # EmptyString)

\* segments.join('/')
RECURSIVE join(_)
join(segments) ==
    IF segments = <<>> THEN EmptyString
    ELSE IF Len(segments) = 1 THEN segments[1]
    ELSE segments[1] \o Slash \o join(Tail(segments))

\* The loop over the segments that keeps a '..' met with nothing retained:
\* the variant that does not absorb '..' at the root.
RECURSIVE foldSegments_keepingDotDot(_, _)
foldSegments_keepingDotDot(segments, result) ==
    IF segments = <<>> THEN result
    ELSE LET segment == Head(segments)
         IN IF segment = <<".">>
            THEN foldSegments_keepingDotDot(Tail(segments), result)
            ELSE IF segment = <<".", ".">> /\ Len(result) > 0
                        /\ result[Len(result)] # <<".", ".">>
                 THEN foldSegments_keepingDotDot(Tail(segments),
                        SubSeq(result, 1, Len(result) - 1))
            ELSE foldSegments_keepingDotDot(Tail(segments),
                                            Append(result, segment))

\* The loop over the segments shared by both normalizePath methods:
\* '.' is skipped, '..' pops the last retained segment if there is one.
RECURSIVE foldSegments(_, _)
foldSegments(segments, result) ==
    IF segments = <<>> THEN result
    ELSE LET segment == Head(segments)
         IN IF segment = <<".">> THEN foldSegments(Tail(segments), result)
            ELSE IF segment = <<".", ".">>
                 THEN foldSegments(Tail(segments),
                        IF Len(result) > 0
                        THEN SubSeq(result, 1, Len(result) - 1)
                        ELSE result)
            ELSE foldSegments(Tail(segments), Append(result, segment))

-----------------------------------------------------------------------------
(* Nodes.                                                                  *)

FILE == "FILE"
DIRECTORY == "DIRECTORY"

\* null, where a node is expected
NullNode == [type |-> "NULL"]

isNull(node) == node.type = "NULL"

EmptyMap == [k \in {} |-> NullNode]

ROOT_DIRECTORY ==
    [name |-> EmptyString, type |-> DIRECTORY, parent |-> EmptyString,
     path |-> Slash, children |-> EmptyMap]

\* createFileNode that drops the content: the variant that creates every
\* file with the default content.
createFileNode_emptyContent(name, parent, content) ==
    LET parentPath == IF isNull(parent) THEN EmptyString ELSE parent.path
        path == collapseSlashes(parentPath \o Slash \o name)
    IN [name |-> name, type |-> FILE, parent |-> parentPath,
        path |-> path, content |-> ""]

createFileNode(name, parent, content) ==
    LET parentPath == IF isNull(parent) THEN EmptyString ELSE parent.path
        path == collapseSlashes(parentPath \o Slash \o name)
    IN [name |-> name, type |-> FILE, parent |-> parentPath,
        path |-> path, content |-> content]

\* createDirectoryNode without the replace: the variant that joins the
\* parent's path and the name as they are.
createDirectoryNode_noCollapse(name, parent) ==
    LET parentPath == IF isNull(parent) THEN EmptyString ELSE parent.path
        path == parentPath \o Slash \o name
    IN IF path = EmptyString THEN ROOT_DIRECTORY
       ELSE [name |-> name, type |-> DIRECTORY, parent |-> parentPath,
             path |-> path, children |-> EmptyMap]

createDirectoryNode(name, parent) ==
    LET parentPath == IF isNull(parent) THEN EmptyString ELSE parent.path
        path == collapseSlashes(parentPath \o Slash \o name)
    IN IF path = EmptyString THEN ROOT_DIRECTORY
       ELSE [name |-> name, type |-> DIRECTORY, parent |-> parentPath,
             path |-> path, children |-> EmptyMap]

-----------------------------------------------------------------------------
(* class FileSystem.  A method that mutates the tree returns the pair      *)
(* [ret, fs]: its return value and the FileSystem afterwards.              *)

FileSystem_new(name, fsType) ==
    [root |-> [ROOT_DIRECTORY EXCEPT !.children = EmptyMap],
     name |-> name, fsType |-> fsType]

FileSystem_normalizePath(path, currentDir) ==
    IF path = EmptyString THEN Slash
    ELSE LET fullPath == IF startsWith(path, Slash) THEN path
                         ELSE currentDir \o Slash \o path
             segments == filterNonEmpty(split(fullPath))
         IN Slash \o join(foldSegments(segments, <<>>))

\* The walk of findNode from currentNode along the segments.
RECURSIVE walk(_, _)
walk(currentNode, segments) ==
    IF segments = <<>> THEN currentNode
    ELSE IF currentNode.type # DIRECTORY THEN NullNode
    ELSE IF Head(segments) \notin DOMAIN currentNode.children THEN NullNode
    ELSE walk(currentNode.children[Head(segments)], Tail(segments))

FileSystem_findNode(fs, path, currentDir) ==
    LET normalizedPath == FileSystem_normalizePath(path, currentDir)
    IN IF normalizedPath = Slash THEN fs.root
       ELSE walk(fs.root, filterNonEmpty(split(normalizedPath)))

\* parentNode.children.set(name, child), parentNode being the directory
\* that the walk along `segments` reaches from `node`.
RECURSIVE setChild(_, _, _, _)
setChild(node, segments, name, child) ==
    IF segments = <<>>
    THEN [node EXCEPT !.children =
            [k \in DOMAIN node.children \cup {name} |->
                IF k = name THEN child ELSE node.children[k]]]
    ELSE [node EXCEPT !.children[Head(segments)] =
            setChild(node.children[Head(segments)], Tail(segments), name, child)]

\* parentNode.children.delete(name)
RECURSIVE deleteChild(_, _, _)
deleteChild(node, segments, name) ==
    IF segments = <<>>
    THEN [node EXCEPT !.children =
            [k \in DOMAIN node.children \ {name} |-> node.children[k]]]
    ELSE [node EXCEPT !.children[Head(segments)] =
            deleteChild(node.children[Head(segments)], Tail(segments), name)]

\* fileNode.content = content, fileNode being the file the walk reaches.
RECURSIVE setContent(_, _, _)
setContent(node, segments, content) ==
    IF segments = <<>> THEN [node EXCEPT !.content = content]
    ELSE [node EXCEPT !.children[Head(segments)] =
            setContent(node.children[Head(segments)], Tail(segments), content)]

parentPathOf(normalizedPath) ==
    LET lastSlashIndex == lastIndexOfSlash(normalizedPath)
        p == substring2(normalizedPath, 0, lastSlashIndex)
    IN IF p = EmptyString THEN Slash ELSE p

lastNameOf(normalizedPath) ==
    substring(normalizedPath, lastIndexOfSlash(normalizedPath) + 1)

\* FileSystem_mkdir without its check for the root: the variant that shows
\* what the check protects.
FileSystem_mkdir_noRootCheck(fs, path, currentDir) ==
    LET normalizedPath == FileSystem_normalizePath(path, currentDir)
        parentPath == parentPathOf(normalizedPath)
        dirName == lastNameOf(normalizedPath)
        parentNode == FileSystem_findNode(fs, parentPath, Slash)
    IN IF isNull(parentNode) \/ parentNode.type # DIRECTORY
       THEN [ret |-> FALSE, fs |-> fs]
       ELSE IF dirName \in DOMAIN parentNode.children
            THEN [ret |-> FALSE, fs |-> fs]
       ELSE [ret |-> TRUE,
             fs |-> [fs EXCEPT !.root =
                        setChild(fs.root, filterNonEmpty(split(parentPath)),
                                 dirName, createDirectoryNode(dirName, parentNode))]]

\* FileSystem_mkdir that returns false after it has created the directory:
\* the variant without its final `return true`.
FileSystem_mkdir_returningFalse(fs, path, currentDir) ==
    LET normalizedPath == FileSystem_normalizePath(path, currentDir)
        parentPath == parentPathOf(normalizedPath)
        dirName == lastNameOf(normalizedPath)
        parentNode == FileSystem_findNode(fs, parentPath, Slash)
    IN IF normalizedPath = Slash THEN [ret |-> FALSE, fs |-> fs]
       ELSE IF isNull(parentNode) \/ parentNode.type # DIRECTORY
            THEN [ret |-> FALSE, fs |-> fs]
       ELSE IF dirName \in DOMAIN parentNode.children
            THEN [ret |-> FALSE, fs |-> fs]
       ELSE [ret |-> FALSE,
             fs |-> [fs EXCEPT !.root =
                        setChild(fs.root, filterNonEmpty(split(parentPath)),
                                 dirName, createDirectoryNode(dirName, parentNode))]]

FileSystem_mkdir(fs, path, currentDir) ==
    LET normalizedPath == FileSystem_normalizePath(path, currentDir)
        parentPath == parentPathOf(normalizedPath)
        dirName == lastNameOf(normalizedPath)
        parentNode == FileSystem_findNode(fs, parentPath, Slash)
    IN IF normalizedPath = Slash THEN [ret |-> FALSE, fs |-> fs]
       ELSE IF isNull(parentNode) \/ parentNode.type # DIRECTORY
            THEN [ret |-> FALSE, fs |-> fs]
       ELSE IF dirName \in DOMAIN parentNode.children
            THEN [ret |-> FALSE, fs |-> fs]
       ELSE [ret |-> TRUE,
             fs |-> [fs EXCEPT !.root =
                        setChild(fs.root, filterNonEmpty(split(parentPath)),
                                 dirName, createDirectoryNode(dirName, parentNode))]]

\* The loop of mkdirRecursive without its check for a file: the variant
\* that takes any existing node for a directory.
RECURSIVE mkdirRecursiveLoop_noFileCheck(_, _, _)
mkdirRecursiveLoop_noFileCheck(fs, segments, currentPath) ==
    IF segments = <<>> THEN [ret |-> TRUE, fs |-> fs]
    ELSE LET nextPath == currentPath \o Slash \o Head(segments)
             node == FileSystem_findNode(fs, nextPath, Slash)
         IN IF ~isNull(node)
            THEN mkdirRecursiveLoop_noFileCheck(fs, Tail(segments), nextPath)
            ELSE LET made == FileSystem_mkdir(fs, nextPath, Slash)
                 IN IF ~made.ret THEN [ret |-> FALSE, fs |-> made.fs]
                    ELSE mkdirRecursiveLoop_noFileCheck(made.fs, Tail(segments),
                                                        nextPath)

\* The loop of mkdirRecursive over the remaining segments.
RECURSIVE mkdirRecursiveLoop(_, _, _)
mkdirRecursiveLoop(fs, segments, currentPath) ==
    IF segments = <<>> THEN [ret |-> TRUE, fs |-> fs]
    ELSE LET nextPath == currentPath \o Slash \o Head(segments)
             node == FileSystem_findNode(fs, nextPath, Slash)
         IN IF ~isNull(node)
            THEN IF node.type = FILE THEN [ret |-> FALSE, fs |-> fs]
                 ELSE mkdirRecursiveLoop(fs, Tail(segments), nextPath)
            ELSE LET made == FileSystem_mkdir(fs, nextPath, Slash)
                 IN IF ~made.ret THEN [ret |-> FALSE, fs |-> made.fs]
                    ELSE mkdirRecursiveLoop(made.fs, Tail(segments), nextPath)

FileSystem_mkdirRecursive(fs, path, currentDir) ==
    LET normalizedPath == FileSystem_normalizePath(path, currentDir)
    IN IF normalizedPath = Slash THEN [ret |-> FALSE, fs |-> fs]
       ELSE mkdirRecursiveLoop(fs, filterNonEmpty(split(normalizedPath)),
                               EmptyString)

\* FileSystem_createFile without its check for an existing child: the
\* variant that replaces whatever has the name.
FileSystem_createFile_overwriting(fs, path, content, currentDir) ==
    LET normalizedPath == FileSystem_normalizePath(path, currentDir)
        parentPath == parentPathOf(normalizedPath)
        fileName == lastNameOf(normalizedPath)
        parentNode == FileSystem_findNode(fs, parentPath, Slash)
    IN IF normalizedPath = Slash THEN [ret |-> FALSE, fs |-> fs]
       ELSE IF isNull(parentNode) \/ parentNode.type # DIRECTORY
            THEN [ret |-> FALSE, fs |-> fs]
       ELSE [ret |-> TRUE,
             fs |-> [fs EXCEPT !.root =
                        setChild(fs.root, filterNonEmpty(split(parentPath)),
                                 fileName,
                                 createFileNode(fileName, parentNode, content))]]

FileSystem_createFile(fs, path, content, currentDir) ==
    LET normalizedPath == FileSystem_normalizePath(path, currentDir)
        parentPath == parentPathOf(normalizedPath)
        fileName == lastNameOf(normalizedPath)
        parentNode == FileSystem_findNode(fs, parentPath, Slash)
    IN IF normalizedPath = Slash THEN [ret |-> FALSE, fs |-> fs]
       ELSE IF isNull(parentNode) \/ parentNode.type # DIRECTORY
            THEN [ret |-> FALSE, fs |-> fs]
       ELSE IF fileName \in DOMAIN parentNode.children
            THEN [ret |-> FALSE, fs |-> fs]
       ELSE [ret |-> TRUE,
             fs |-> [fs EXCEPT !.root =
                        setChild(fs.root, filterNonEmpty(split(parentPath)),
                                 fileName,
                                 createFileNode(fileName, parentNode, content))]]

\* FileSystem_writeFile that leaves the content of an existing file as it
\* is: the variant that only creates.
FileSystem_writeFile_keepingContent(fs, path, content, currentDir) ==
    LET fileNode == FileSystem_findNode(fs, path, currentDir)
    IN IF isNull(fileNode)
       THEN FileSystem_createFile(fs, path, content, currentDir)
       ELSE IF fileNode.type # FILE THEN [ret |-> FALSE, fs |-> fs]
       ELSE [ret |-> TRUE, fs |-> fs]

\* FileSystem_writeFile that does not create: the variant that fails when
\* the file is absent.
FileSystem_writeFile_noAutoCreate(fs, path, content, currentDir) ==
    LET fileNode == FileSystem_findNode(fs, path, currentDir)
    IN IF isNull(fileNode) \/ fileNode.type # FILE
       THEN [ret |-> FALSE, fs |-> fs]
       ELSE [ret |-> TRUE,
             fs |-> [fs EXCEPT !.root =
                        setContent(fs.root,
                            filterNonEmpty(split(
                                FileSystem_normalizePath(path, currentDir))),
                            content)]]

FileSystem_writeFile(fs, path, content, currentDir) ==
    LET fileNode == FileSystem_findNode(fs, path, currentDir)
    IN IF isNull(fileNode)
       THEN FileSystem_createFile(fs, path, content, currentDir)
       ELSE IF fileNode.type # FILE THEN [ret |-> FALSE, fs |-> fs]
       ELSE [ret |-> TRUE,
             fs |-> [fs EXCEPT !.root =
                        setContent(fs.root,
                            filterNonEmpty(split(
                                FileSystem_normalizePath(path, currentDir))),
                            content)]]

\* string | null: [null |-> TRUE] or [null |-> FALSE, value |-> content]
FileSystem_readFile(fs, path, currentDir) ==
    LET fileNode == FileSystem_findNode(fs, path, currentDir)
    IN IF isNull(fileNode) \/ fileNode.type # FILE
       THEN [null |-> TRUE]
       ELSE [null |-> FALSE, value |-> fileNode.content]

\* FileSystem_listDirectory checking only that the node exists: the variant
\* that lists a file as a directory without entries.
FileSystem_listDirectory_noTypeCheck(fs, path, currentDir) ==
    LET dirNode == FileSystem_findNode(fs, path, currentDir)
    IN IF isNull(dirNode) THEN [null |-> TRUE]
       ELSE IF dirNode.type # DIRECTORY THEN [null |-> FALSE, value |-> {}]
       ELSE [null |-> FALSE,
             value |-> {dirNode.children[k] : k \in DOMAIN dirNode.children}]

\* FileSystemNode[] | null: the children, as the set of the Map's values
FileSystem_listDirectory(fs, path, currentDir) ==
    LET dirNode == FileSystem_findNode(fs, path, currentDir)
    IN IF isNull(dirNode) \/ dirNode.type # DIRECTORY
       THEN [null |-> TRUE]
       ELSE [null |-> FALSE,
             value |-> {dirNode.children[k] : k \in DOMAIN dirNode.children}]

\* FileSystem_remove refusing a directory that has children: the variant
\* with a "directory not empty" check.
FileSystem_remove_notEmptyCheck(fs, path, currentDir) ==
    LET normalizedPath == FileSystem_normalizePath(path, currentDir)
        parentPath == parentPathOf(normalizedPath)
        nodeName == lastNameOf(normalizedPath)
        parentNode == FileSystem_findNode(fs, parentPath, Slash)
        node == FileSystem_findNode(fs, normalizedPath, Slash)
    IN IF normalizedPath = Slash THEN [ret |-> FALSE, fs |-> fs]
       ELSE IF isNull(parentNode) \/ parentNode.type # DIRECTORY
            THEN [ret |-> FALSE, fs |-> fs]
       ELSE IF nodeName \notin DOMAIN parentNode.children
            THEN [ret |-> FALSE, fs |-> fs]
       ELSE IF node.type = DIRECTORY /\ DOMAIN node.children # {}
            THEN [ret |-> FALSE, fs |-> fs]
       ELSE [ret |-> TRUE,
             fs |-> [fs EXCEPT !.root =
                        deleteChild(fs.root, filterNonEmpty(split(parentPath)),
                                    nodeName)]]

FileSystem_remove(fs, path, currentDir) ==
    LET normalizedPath == FileSystem_normalizePath(path, currentDir)
        parentPath == parentPathOf(normalizedPath)
        nodeName == lastNameOf(normalizedPath)
        parentNode == FileSystem_findNode(fs, parentPath, Slash)
    IN IF normalizedPath = Slash THEN [ret |-> FALSE, fs |-> fs]
       ELSE IF isNull(parentNode) \/ parentNode.type # DIRECTORY
            THEN [ret |-> FALSE, fs |-> fs]
       ELSE IF nodeName \notin DOMAIN parentNode.children
            THEN [ret |-> FALSE, fs |-> fs]
       ELSE [ret |-> TRUE,
             fs |-> [fs EXCEPT !.root =
                        deleteChild(fs.root, filterNonEmpty(split(parentPath)),
                                    nodeName)]]

-----------------------------------------------------------------------------
(* class MountManager.                                                     *)

\* this.rootFS: the identity of the FileSystem the constructor creates
rootFS == 0

\* The object identity a `new FileSystem` gets: the first one not in use.
newIdentity ==
    CHOOSE i \in 0..Cardinality(DOMAIN filesystems) :
        /\ i \notin DOMAIN filesystems
        /\ \A j \in 0..(i - 1) : j \in DOMAIN filesystems

\* MountManager.normalizePath resolving a relative path against the root,
\* whatever the current directory is.
MountManager_normalizePath_fromRoot(path) ==
    IF startsWith(path, Slash) THEN collapseSlashes(path)
    ELSE LET fullPath == Slash \o Slash \o path
             segments == filterNonEmpty(split(fullPath))
         IN Slash \o join(foldSegments(segments, <<>>))

MountManager_normalizePath(path) ==
    IF startsWith(path, Slash) THEN collapseSlashes(path)
    ELSE LET fullPath == currentDirectory \o Slash \o path
             segments == filterNonEmpty(split(fullPath))
         IN Slash \o join(foldSegments(segments, <<>>))

\* [...this.mounts].sort((a, b) => b.path.length - a.path.length): a stable
\* sort, longest path first.
RECURSIVE insertByLength(_, _)
insertByLength(sorted, mount) ==
    IF sorted = <<>> THEN <<mount>>
    ELSE IF Len(Head(sorted).path) >= Len(mount.path)
         THEN <<Head(sorted)>> \o insertByLength(Tail(sorted), mount)
         ELSE <<mount>> \o sorted

RECURSIVE sortMounts(_, _)
sortMounts(unsorted, sorted) ==
    IF unsorted = <<>> THEN sorted
    ELSE sortMounts(Tail(unsorted), insertByLength(sorted, Head(unsorted)))

\* The loop of findResponsibleFilesystem matching a mount other than '/'
\* whenever the path starts with the mount's path, also in the middle of a
\* segment.
RECURSIVE firstResponsible_anyPrefix(_, _)
firstResponsible_anyPrefix(sortedMounts, path) ==
    IF sortedMounts = <<>> THEN [fs |-> rootFS, relativePath |-> path]
    ELSE LET mount == Head(sortedMounts)
         IN IF \/ path = mount.path
               \/ (mount.path # Slash /\ startsWith(path, mount.path))
            THEN [fs |-> mount.filesystem,
                  relativePath |-> IF path = mount.path THEN Slash
                                   ELSE substring(path, Len(mount.path))]
            ELSE firstResponsible_anyPrefix(Tail(sortedMounts), path)

\* The loop of findResponsibleFilesystem over the sorted mounts.
RECURSIVE firstResponsible(_, _)
firstResponsible(sortedMounts, path) ==
    IF sortedMounts = <<>> THEN [fs |-> rootFS, relativePath |-> path]
    ELSE LET mount == Head(sortedMounts)
         IN IF path = mount.path \/ startsWith(path, mount.path \o Slash)
            THEN [fs |-> mount.filesystem,
                  relativePath |-> IF path = mount.path THEN Slash
                                   ELSE substring(path, Len(mount.path))]
            ELSE firstResponsible(Tail(sortedMounts), path)

\* findResponsibleFilesystem without the sort: the first mount, in the order
\* of mounting, that covers the path.
findResponsibleFilesystem_unsorted(path) ==
    firstResponsible(mounts, path)

findResponsibleFilesystem(path) ==
    firstResponsible(sortMounts(mounts, <<>>), path)

\* The loop of processMountPoints over this.mounts: the root of the first
\* mount the loop returns, or processedNode when it returns none.
RECURSIVE processMountsLoop(_, _, _)
processMountsLoop(remaining, processedNode, path) ==
    IF remaining = <<>> THEN processedNode
    ELSE LET mount == Head(remaining)
             relativeMountPath ==
                 substring(mount.path,
                           IF Len(path) = 1 THEN 1 ELSE Len(path) + 1)
             segments == split(relativeMountPath)
             mountedRoot ==
                 FileSystem_findNode(filesystems[mount.filesystem], Slash, Slash)
         IN IF /\ mount.path # Slash
               /\ (mount.path = path \/ startsWith(mount.path, path \o Slash))
               /\ segments[1] = EmptyString
               /\ ~isNull(mountedRoot)
            THEN mountedRoot
            ELSE processMountsLoop(Tail(remaining), processedNode, path)

processMountPoints(node, path) ==
    IF node.type # DIRECTORY THEN node
    ELSE processMountsLoop(mounts, node, path)

MountManager_getFileSystemTree ==
    LET rootNode == FileSystem_findNode(filesystems[rootFS], Slash, Slash)
    IN processMountPoints(rootNode, Slash)

\* The methods that forward to the responsible FileSystem: the FileSystem
\* chosen, and what its method returns.
routed(path) == findResponsibleFilesystem(MountManager_normalizePath(path))

MountManager_mkdir(path) ==
    LET r == routed(path)
    IN FileSystem_mkdir(filesystems[r.fs], r.relativePath, Slash)

MountManager_mkdirRecursive(path) ==
    LET r == routed(path)
    IN FileSystem_mkdirRecursive(filesystems[r.fs], r.relativePath, Slash)

MountManager_createFile(path, content) ==
    LET r == routed(path)
    IN FileSystem_createFile(filesystems[r.fs], r.relativePath, content, Slash)

MountManager_writeFile(path, content) ==
    LET r == routed(path)
    IN FileSystem_writeFile(filesystems[r.fs], r.relativePath, content, Slash)

MountManager_readFile(path) ==
    LET r == routed(path)
    IN FileSystem_readFile(filesystems[r.fs], r.relativePath, Slash)

MountManager_listDirectory(path) ==
    LET r == routed(path)
    IN FileSystem_listDirectory(filesystems[r.fs], r.relativePath, Slash)

MountManager_remove(path) ==
    LET r == routed(path)
    IN FileSystem_remove(filesystems[r.fs], r.relativePath, Slash)

\* setCurrentDirectory: [ret, currentDirectory]
MountManager_setCurrentDirectory(newDir) ==
    LET normalized == MountManager_normalizePath(newDir)
        r == findResponsibleFilesystem(normalized)
        node == FileSystem_findNode(filesystems[r.fs], r.relativePath, Slash)
    IN IF isNull(node) \/ node.type # DIRECTORY
       THEN [ret |-> FALSE, currentDirectory |-> currentDirectory]
       ELSE [ret |-> TRUE, currentDirectory |-> normalized]

\* mount, with newFS the FileSystem that `new FileSystem` gives:
\* [ret, mounts, filesystems]
mountWith(mountPoint, newFS) ==
    LET normalizedPath == MountManager_normalizePath(mountPoint)
        r == findResponsibleFilesystem(normalizedPath)
        fs == filesystems[r.fs]
        node == FileSystem_findNode(fs, r.relativePath, Slash)
        made == IF isNull(node)
                THEN FileSystem_mkdirRecursive(fs, r.relativePath, Slash)
                ELSE [ret |-> node.type = DIRECTORY, fs |-> fs]
        after == [filesystems EXCEPT ![r.fs] = made.fs]
        id == newIdentity
    IN IF \E i \in 1..Len(mounts) : mounts[i].path = normalizedPath
       THEN [ret |-> FALSE, mounts |-> mounts, filesystems |-> filesystems]
       ELSE IF ~made.ret
            THEN [ret |-> FALSE, mounts |-> mounts, filesystems |-> after]
       ELSE [ret |-> TRUE,
             mounts |-> Append(mounts,
                               [path |-> normalizedPath, filesystem |-> id]),
             filesystems |->
                 [i \in DOMAIN after \cup {id} |->
                     IF i = id THEN newFS ELSE after[i]]]

\* mount giving back the FileSystem that was unmounted from the same path,
\* when there is one: the variant in which unmount discards nothing.
MountManager_mount_restoring(fsType, mountPoint) ==
    LET normalizedPath == MountManager_normalizePath(mountPoint)
        fresh == FileSystem_new("mount_" \o ToString(Len(mounts)), fsType)
        old == {d \in discarded : d.path = normalizedPath}
    IN mountWith(mountPoint,
                 IF old = {} THEN fresh
                 ELSE [fresh EXCEPT !.root = (CHOOSE d \in old : TRUE).root])

MountManager_mount(fsType, mountPoint) ==
    mountWith(mountPoint,
              FileSystem_new("mount_" \o ToString(Len(mounts)), fsType))

\* unmount that takes the mounts below the mount point away with it.
MountManager_unmount_cascading(mountPoint) ==
    LET normalizedPath == MountManager_normalizePath(mountPoint)
        I == {i \in 1..Len(mounts) : mounts[i].path = normalizedPath}
        kept == SelectSeq(mounts,
                    LAMBDA m : /\ m.path # normalizedPath
                               /\ ~startsWith(m.path, normalizedPath \o Slash))
        held == {kept[i].filesystem : i \in 1..Len(kept)}
    IN IF normalizedPath = Slash \/ I = {}
       THEN [ret |-> FALSE, mounts |-> mounts, filesystems |-> filesystems]
       ELSE [ret |-> TRUE,
             mounts |-> kept,
             filesystems |-> [i \in held |-> filesystems[i]]]

\* unmount: [ret, mounts, filesystems]; the FileSystem of the entry removed
\* is referenced by nothing afterwards.
MountManager_unmount(mountPoint) ==
    LET normalizedPath == MountManager_normalizePath(mountPoint)
        I == {i \in 1..Len(mounts) : mounts[i].path = normalizedPath}
        index == CHOOSE i \in I : \A j \in I : i <= j
        gone == mounts[index].filesystem
    IN IF normalizedPath = Slash \/ I = {}
       THEN [ret |-> FALSE, mounts |-> mounts, filesystems |-> filesystems]
       ELSE [ret |-> TRUE,
             mounts |-> SubSeq(mounts, 1, index - 1)
                        \o SubSeq(mounts, index + 1, Len(mounts)),
             filesystems |->
                 [i \in DOMAIN filesystems \ {gone} |-> filesystems[i]]]

-----------------------------------------------------------------------------
(* The calls a client makes.                                               *)

\* The path arguments of the calls.
PathArgs ==
    { <<"/">>,
      <<"/", "a">>,
      <<"/", "a", "/">>,
      <<"/", "a", "/", "b">>,
      <<"/", "a", "/", "b", "/", "c">>,
      <<"/", "a", "/", ".", ".">>,
      <<"b">>,
      <<".", ".">> }

\* The mount points of the mount and unmount calls.
MountPoints ==
    { <<"/">>, <<"/", "a">>, <<"/", "a", "/">>, <<"/", "a", "/", "b">> }

\* The contents written.
Contents == {"", "x"}

FsTypes == {"tmpfs"}

Init ==
    /\ mounts = <<[path |-> Slash, filesystem |-> rootFS]>>
    /\ filesystems = [i \in {rootFS} |-> FileSystem_new("root", "ext4")]
    /\ currentDirectory = Slash
    /\ last = [op |-> "constructor", path |-> EmptyString, ret |-> TRUE]
    /\ calls = 0
    /\ discarded = {}

\* The record of a call.
Called(op, path, ret) ==
    /\ calls' = calls + 1
    /\ last' = [op |-> op, path |-> path, ret |-> ret]

\* A call forwarded to the responsible FileSystem, which the call leaves
\* as result.fs and which returns result.ret.
\* A call whose result is written to the root FileSystem, whichever
\* FileSystem is responsible for the path.
Forwarded_toRoot(op, path, result) ==
    /\ filesystems' = [filesystems EXCEPT ![rootFS] = result.fs]
    /\ Called(op, path, result.ret)
    /\ UNCHANGED <<mounts, currentDirectory, discarded>>

Forwarded(op, path, result) ==
    /\ filesystems' = [filesystems EXCEPT ![routed(path).fs] = result.fs]
    /\ Called(op, path, result.ret)
    /\ UNCHANGED <<mounts, currentDirectory, discarded>>

MkdirCall(path) ==
    Forwarded("mkdir", path, MountManager_mkdir(path))

MkdirRecursiveCall(path) ==
    Forwarded("mkdirRecursive", path, MountManager_mkdirRecursive(path))

CreateFileCall(path, content) ==
    Forwarded("createFile", path, MountManager_createFile(path, content))

WriteFileCall(path, content) ==
    Forwarded("writeFile", path, MountManager_writeFile(path, content))

\* remove that takes the current directory back to the root when it removes
\* the directory the current directory names.
RemoveCall_resettingDirectory(path) ==
    LET result == MountManager_remove(path)
    IN /\ filesystems' = [filesystems EXCEPT ![routed(path).fs] = result.fs]
       /\ Called("remove", path, result.ret)
       /\ currentDirectory' =
              IF result.ret /\ MountManager_normalizePath(path) = currentDirectory
              THEN Slash ELSE currentDirectory
       /\ UNCHANGED <<mounts, discarded>>

RemoveCall(path) ==
    Forwarded("remove", path, MountManager_remove(path))

ReadFileCall(path) ==
    /\ Called("readFile", path, MountManager_readFile(path))
    /\ UNCHANGED <<mounts, filesystems, currentDirectory, discarded>>

ListDirectoryCall(path) ==
    /\ Called("listDirectory", path, MountManager_listDirectory(path))
    /\ UNCHANGED <<mounts, filesystems, currentDirectory, discarded>>

SetCurrentDirectoryCall(newDir) ==
    LET result == MountManager_setCurrentDirectory(newDir)
    IN /\ currentDirectory' = result.currentDirectory
       /\ Called("setCurrentDirectory", newDir, result.ret)
       /\ UNCHANGED <<mounts, filesystems, discarded>>

MountCall(fsType, mountPoint) ==
    LET result == MountManager_mount(fsType, mountPoint)
    IN /\ mounts' = result.mounts
       /\ filesystems' = result.filesystems
       /\ Called("mount", mountPoint, result.ret)
       /\ UNCHANGED <<currentDirectory, discarded>>

UnmountCall(mountPoint) ==
    LET result == MountManager_unmount(mountPoint)
        gone == {i \in 1..Len(mounts) :
                    mounts[i].filesystem \notin DOMAIN result.filesystems}
    IN /\ mounts' = result.mounts
       /\ filesystems' = result.filesystems
       /\ discarded' = discarded \cup
              {[path |-> mounts[i].path,
                root |-> filesystems[mounts[i].filesystem].root] : i \in gone}
       /\ Called("unmount", mountPoint, result.ret)
       /\ UNCHANGED currentDirectory

\* getFileSystemTree writing the root of each FileSystem mounted on a child
\* of the root directory into the root directory's own children: the
\* variant that splices in place.
GetFileSystemTreeCall_splicing ==
    LET children == filesystems[rootFS].root.children
        mountedOn(k) ==
            {i \in 1..Len(mounts) : mounts[i].path = Slash \o k}
        spliced ==
            [k \in DOMAIN children |->
                IF mountedOn(k) = {} THEN children[k]
                ELSE filesystems[
                        mounts[CHOOSE i \in mountedOn(k) : TRUE].filesystem].root]
    IN /\ Called("getFileSystemTree", EmptyString,
                 MountManager_getFileSystemTree)
       /\ filesystems' = [filesystems EXCEPT ![rootFS].root.children = spliced]
       /\ UNCHANGED <<mounts, currentDirectory, discarded>>

GetFileSystemTreeCall ==
    /\ Called("getFileSystemTree", EmptyString, MountManager_getFileSystemTree)
    /\ UNCHANGED <<mounts, filesystems, currentDirectory, discarded>>

(* Spec: a session of at most MaxCalls calls, of any method.               *)

Mkdir ==
    calls < MaxCalls /\ \E path \in PathArgs : MkdirCall(path)

MkdirRecursive ==
    calls < MaxCalls /\ \E path \in PathArgs : MkdirRecursiveCall(path)

CreateFile ==
    calls < MaxCalls /\ \E path \in PathArgs, content \in Contents :
        CreateFileCall(path, content)

WriteFile ==
    calls < MaxCalls /\ \E path \in PathArgs, content \in Contents :
        WriteFileCall(path, content)

ReadFile ==
    calls < MaxCalls /\ \E path \in PathArgs : ReadFileCall(path)

ListDirectory ==
    calls < MaxCalls /\ \E path \in PathArgs : ListDirectoryCall(path)

Remove ==
    calls < MaxCalls /\ \E path \in PathArgs : RemoveCall(path)

SetCurrentDirectory ==
    calls < MaxCalls /\ \E newDir \in PathArgs : SetCurrentDirectoryCall(newDir)

Mount ==
    calls < MaxCalls /\ \E fsType \in FsTypes, mountPoint \in MountPoints :
        MountCall(fsType, mountPoint)

Unmount ==
    calls < MaxCalls /\ \E mountPoint \in MountPoints : UnmountCall(mountPoint)

GetFileSystemTree ==
    calls < MaxCalls /\ GetFileSystemTreeCall

Next ==
    \/ Mkdir
    \/ MkdirRecursive
    \/ CreateFile
    \/ WriteFile
    \/ ReadFile
    \/ ListDirectory
    \/ Remove
    \/ SetCurrentDirectory
    \/ Mount
    \/ Unmount
    \/ GetFileSystemTree

Spec == Init /\ [][Next]_vars

(* MountSpec: a longer session, of at most MaxMountCalls calls, that       *)
(* mounts and unmounts at /a and writes, reads and lists under it.         *)

MountSessionPaths == { <<"/", "a">>, <<"/", "a", "/", "b">> }

MountSessionPoints == { <<"/", "a">> }

SessionMount ==
    calls < MaxMountCalls
    /\ \E fsType \in FsTypes, mountPoint \in MountSessionPoints :
        MountCall(fsType, mountPoint)

SessionUnmount ==
    calls < MaxMountCalls
    /\ \E mountPoint \in MountSessionPoints : UnmountCall(mountPoint)

SessionWriteFile ==
    calls < MaxMountCalls
    /\ \E path \in MountSessionPaths, content \in Contents :
        WriteFileCall(path, content)

SessionMkdir ==
    calls < MaxMountCalls /\ \E path \in MountSessionPaths : MkdirCall(path)

SessionReadFile ==
    calls < MaxMountCalls /\ \E path \in MountSessionPaths : ReadFileCall(path)

SessionListDirectory ==
    calls < MaxMountCalls
    /\ \E path \in MountSessionPaths : ListDirectoryCall(path)

MountNext ==
    \/ SessionMount
    \/ SessionUnmount
    \/ SessionWriteFile
    \/ SessionMkdir
    \/ SessionReadFile
    \/ SessionListDirectory

MountSpec == Init /\ [][MountNext]_vars

(* NamespaceSpec: one FileSystem called directly, without a MountManager   *)
(* in front of it: a session of at most MaxNamespaceCalls calls of its     *)
(* methods, each with the caller's current directory as currentDir.  The   *)
(* FileSystem is the one at rootFS; the current directory is drawn by the  *)
(* initial state and stays.                                                *)

NamespaceDirs == { <<"/">>, <<"/", "a">> }

NamespaceInit ==
    /\ mounts = <<[path |-> Slash, filesystem |-> rootFS]>>
    /\ filesystems = [i \in {rootFS} |-> FileSystem_new("root", "ext4")]
    /\ currentDirectory \in NamespaceDirs
    /\ last = [op |-> "constructor", path |-> EmptyString, ret |-> TRUE]
    /\ calls = 0
    /\ discarded = {}

\* A call of a mutating method, which leaves the FileSystem as result.fs
\* and returns result.ret.
NamespaceCalled(op, path, result) ==
    /\ filesystems' = [filesystems EXCEPT ![rootFS] = result.fs]
    /\ Called(op, path, result.ret)
    /\ UNCHANGED <<mounts, currentDirectory, discarded>>

NamespaceMkdir ==
    calls < MaxNamespaceCalls
    /\ \E path \in PathArgs :
        NamespaceCalled("mkdir", path,
            FileSystem_mkdir(filesystems[rootFS], path, currentDirectory))

NamespaceMkdirRecursive ==
    calls < MaxNamespaceCalls
    /\ \E path \in PathArgs :
        NamespaceCalled("mkdirRecursive", path,
            FileSystem_mkdirRecursive(filesystems[rootFS], path,
                                      currentDirectory))

NamespaceCreateFile ==
    calls < MaxNamespaceCalls
    /\ \E path \in PathArgs, content \in Contents :
        NamespaceCalled("createFile", path,
            FileSystem_createFile(filesystems[rootFS], path, content,
                                  currentDirectory))

NamespaceWriteFile ==
    calls < MaxNamespaceCalls
    /\ \E path \in PathArgs, content \in Contents :
        NamespaceCalled("writeFile", path,
            FileSystem_writeFile(filesystems[rootFS], path, content,
                                 currentDirectory))

NamespaceRemove ==
    calls < MaxNamespaceCalls
    /\ \E path \in PathArgs :
        NamespaceCalled("remove", path,
            FileSystem_remove(filesystems[rootFS], path, currentDirectory))

NamespaceReadFile ==
    calls < MaxNamespaceCalls
    /\ \E path \in PathArgs :
        /\ Called("readFile", path,
                  FileSystem_readFile(filesystems[rootFS], path,
                                      currentDirectory))
        /\ UNCHANGED <<mounts, filesystems, currentDirectory, discarded>>

NamespaceListDirectory ==
    calls < MaxNamespaceCalls
    /\ \E path \in PathArgs :
        /\ Called("listDirectory", path,
                  FileSystem_listDirectory(filesystems[rootFS], path,
                                           currentDirectory))
        /\ UNCHANGED <<mounts, filesystems, currentDirectory, discarded>>

NamespaceNext ==
    \/ NamespaceMkdir
    \/ NamespaceMkdirRecursive
    \/ NamespaceCreateFile
    \/ NamespaceWriteFile
    \/ NamespaceRemove
    \/ NamespaceReadFile
    \/ NamespaceListDirectory

NamespaceSpec == NamespaceInit /\ [][NamespaceNext]_vars

(* NormalizeSpec: the two normalizePath methods as functions of their      *)
(* arguments.  The initial state draws the current directory; each step    *)
(* applies one of the methods to a path drawn from NormalizeArgs and       *)
(* records the path and what the method returned.                          *)

PathAlphabet == {"/", ".", "a"}

\* Every string over PathAlphabet of at most MaxPathLen characters, and
\* some longer paths that climb above the root.
NormalizeArgs ==
    UNION {[1..n -> PathAlphabet] : n \in 0..MaxPathLen}
    \cup { <<"/", ".", ".", "/", ".", ".", "/", "a">>,
           <<"/", "a", "/", ".", ".", "/", ".", ".", "/", "a">>,
           <<".", ".", "/", ".", ".", "/", "a">>,
           <<"/", "a", "/", "/", "a", "/", ".", "/", "a", "/">> }

NormalizeDirs ==
    { <<"/">>, <<"/", "a">>, <<"/", "a", "/", "a">>, <<"/", "a", "/", ".", ".">> }

NormalizeInit ==
    /\ mounts = <<[path |-> Slash, filesystem |-> rootFS]>>
    /\ filesystems = [i \in {rootFS} |-> FileSystem_new("root", "ext4")]
    /\ currentDirectory \in NormalizeDirs
    /\ last = [op |-> "constructor", path |-> EmptyString, ret |-> EmptyString]
    /\ calls = 0
    /\ discarded = {}

NormalizePath ==
    \E path \in NormalizeArgs :
        /\ last' = [op |-> "FileSystem.normalizePath", path |-> path,
                    ret |-> FileSystem_normalizePath(path, currentDirectory)]
        /\ UNCHANGED <<mounts, filesystems, currentDirectory, calls, discarded>>

NormalizePathInContext ==
    \E path \in NormalizeArgs :
        /\ last' = [op |-> "MountManager.normalizePath", path |-> path,
                    ret |-> MountManager_normalizePath(path)]
        /\ UNCHANGED <<mounts, filesystems, currentDirectory, calls, discarded>>

NormalizeNext ==
    \/ NormalizePath
    \/ NormalizePathInContext

NormalizeSpec == NormalizeInit /\ [][NormalizeNext]_vars

-----------------------------------------------------------------------------
(* Vocabulary of the properties.                                           *)

PathA == <<"/", "a">>
PathAB == <<"/", "a", "/", "b">>
PathABC == <<"/", "a", "/", "b", "/", "c">>
PathC == <<"/", "c">>
PathBC == <<"/", "b", "/", "c">>

mountedAt(path) == \E i \in 1..Len(mounts) : mounts[i].path = path

\* The identity of the FileSystem mounted at path.
fsMountedAt(path) ==
    mounts[CHOOSE i \in 1..Len(mounts) : mounts[i].path = path].filesystem

\* A mount path covers an absolute path: it is the root, the path itself,
\* or the path's prefix up to a separator.
covers(mountPath, path) ==
    \/ mountPath = Slash
    \/ path = mountPath
    \/ startsWith(path, mountPath \o Slash)

\* The segments of an absolute path that has no '.', '..' or empty segment.
segmentsOf(path) == filterNonEmpty(split(path))

\* Every node below a node: the set of [segments, node], the segments being
\* the names on the way down from `node`.
RECURSIVE below(_, _)
below(node, prefix) ==
    IF node.type # DIRECTORY THEN {}
    ELSE UNION {
        {[segments |-> Append(prefix, k), node |-> node.children[k]]}
            \cup below(node.children[k], Append(prefix, k))
        : k \in DOMAIN node.children}

\* The step is a call of `op` with the path argument `path`.
isCall(op, path) ==
    calls' = calls + 1 /\ last'.op = op /\ last'.path = path

isPrefix(s, t) == Len(s) <= Len(t) /\ SubSeq(t, 1, Len(s)) = s

\* A node without its children: what stays the same when something below
\* it changes.
shallow(node) ==
    [name |-> node.name, type |-> node.type, parent |-> node.parent,
     path |-> node.path,
     content |-> IF node.type = FILE THEN node.content ELSE ""]

\* The nodes of a FileSystem below its root, each without its children.
entries(fs) ==
    {[segments |-> e.segments, node |-> shallow(e.node)] : e \in below(fs.root, <<>>)}

-----------------------------------------------------------------------------
(* C1: longest-prefix routing.  In every state, each absolute path is      *)
(* routed to the FileSystem of a mount that covers the path as the         *)
(* MountManager normalizes it, and no mount that covers it has a longer    *)
(* path.  And when mounts exist at /a and at /a/b (and none at /a/b/c), a  *)
(* writeFile of /a/b/c changes neither the FileSystem mounted at /a nor    *)
(* the root FileSystem; it succeeds unless /c is a directory of the        *)
(* FileSystem mounted at /a/b, and then that FileSystem reads /c as the    *)
(* content written.                                                        *)

C1_LongestCovering ==
    \A path \in PathArgs :
        startsWith(path, Slash) =>
            LET normalized == MountManager_normalizePath(path)
                covering == {i \in 1..Len(mounts) :
                                covers(mounts[i].path, normalized)}
            IN \E i \in covering :
                /\ mounts[i].filesystem = routed(path).fs
                /\ \A j \in covering :
                        Len(mounts[j].path) <= Len(mounts[i].path)

C1_WriteLands ==
    \A content \in Contents :
        (/\ mountedAt(PathA) /\ mountedAt(PathAB) /\ ~mountedAt(PathABC)
         /\ isCall("writeFile", PathABC) /\ WriteFileCall(PathABC, content))
        => LET a == fsMountedAt(PathA)
               ab == fsMountedAt(PathAB)
               before == FileSystem_findNode(filesystems[ab], PathC, Slash)
           IN /\ filesystems'[a] = filesystems[a]
              /\ filesystems'[rootFS] = filesystems[rootFS]
              /\ last'.ret = (before.type # DIRECTORY)
              /\ last'.ret =>
                    FileSystem_readFile(filesystems'[ab], PathC, Slash)
                        = [null |-> FALSE, value |-> content]

C1_LongestPrefixRouting ==
    []C1_LongestCovering /\ [][C1_WriteLands]_vars

C1_Witness ==
    /\ last.op = "writeFile" /\ last.path = PathABC /\ last.ret = TRUE
    /\ mountedAt(PathA) /\ mountedAt(PathAB)
    /\ ~FileSystem_readFile(filesystems[fsMountedAt(PathAB)], PathC, Slash).null
    /\ isNull(FileSystem_findNode(filesystems[fsMountedAt(PathA)], PathBC, Slash))
    /\ isNull(FileSystem_findNode(filesystems[rootFS], PathABC, Slash))

-----------------------------------------------------------------------------
(* C2: the calls address nodes by normalized path.  In every state, two    *)
(* path arguments that fold to the same absolute path under the current    *)
(* directory are routed to the same FileSystem and the same node, and      *)
(* each of mkdir, mkdirRecursive, createFile, writeFile, readFile,         *)
(* listDirectory and remove does and returns the same for both.            *)

C2_NormalizedAddressing ==
    \A p \in PathArgs, q \in PathArgs :
        FileSystem_normalizePath(p, currentDirectory)
            = FileSystem_normalizePath(q, currentDirectory)
        => /\ routed(p).fs = routed(q).fs
           /\ FileSystem_normalizePath(routed(p).relativePath, Slash)
                = FileSystem_normalizePath(routed(q).relativePath, Slash)
           /\ MountManager_mkdir(p) = MountManager_mkdir(q)
           /\ MountManager_mkdirRecursive(p) = MountManager_mkdirRecursive(q)
           /\ \A content \in Contents :
                /\ MountManager_createFile(p, content)
                    = MountManager_createFile(q, content)
                /\ MountManager_writeFile(p, content)
                    = MountManager_writeFile(q, content)
           /\ MountManager_readFile(p) = MountManager_readFile(q)
           /\ MountManager_listDirectory(p) = MountManager_listDirectory(q)
           /\ MountManager_remove(p) = MountManager_remove(q)

-----------------------------------------------------------------------------
(* C3: in every state, MountManager.normalizePath(path) is what            *)
(* FileSystem.normalizePath(path, currentDirectory) is, for every path.    *)

C3_SameNormalization ==
    \A path \in PathArgs \cup {EmptyString} :
        MountManager_normalizePath(path)
            = FileSystem_normalizePath(path, currentDirectory)

-----------------------------------------------------------------------------
(* C4: in every state the current directory is an absolute, normalized     *)
(* path: it starts with '/', and unless it is '/' itself it has no empty,  *)
(* '.' or '..' segment (so no doubled or trailing separator).              *)

isAbsoluteNormalized(path) ==
    /\ startsWith(path, Slash)
    /\ \/ path = Slash
       \/ LET segments == split(substring(path, 1))
          IN \A i \in 1..Len(segments) :
                /\ segments[i] # EmptyString
                /\ segments[i] # <<".">>
                /\ segments[i] # <<".", ".">>

C4_CurrentDirectoryNormalized == isAbsoluteNormalized(currentDirectory)

-----------------------------------------------------------------------------
(* C5: in every state, for every mount other than '/', the node that the   *)
(* tree of getFileSystemTree has at the mount path is a directory whose    *)
(* children are the children of the root of the FileSystem mounted there.  *)

C5_TreeOverlaysMounts ==
    \A i \in 1..Len(mounts) :
        mounts[i].path # Slash =>
            LET node == walk(MountManager_getFileSystemTree,
                             segmentsOf(mounts[i].path))
            IN /\ node.type = DIRECTORY
               /\ node.children = filesystems[mounts[i].filesystem].root.children

-----------------------------------------------------------------------------
(* C6: getFileSystemTree is pure.  A call of it changes no FileSystem, no  *)
(* mount and not the current directory, and a call that directly follows   *)
(* another returns an equal tree.                                          *)

C6_TreeIsPure ==
    [][(last'.op = "getFileSystemTree" /\ calls' = calls + 1)
        => /\ UNCHANGED <<mounts, filesystems, currentDirectory>>
           /\ last.op = "getFileSystemTree" => last'.ret = last.ret]_vars

C6_Witness ==
    /\ last.op = "getFileSystemTree"
    /\ Len(mounts) > 1
    /\ DOMAIN last.ret.children # {}

-----------------------------------------------------------------------------
(* C7: the mount table.  In every state no two mounts have paths that      *)
(* normalize to the same path, and there is a mount of the root            *)
(* FileSystem at '/'.                                                      *)

C7_MountTable ==
    /\ \A i \in 1..Len(mounts), j \in 1..Len(mounts) :
          i # j => FileSystem_normalizePath(mounts[i].path, Slash)
                     # FileSystem_normalizePath(mounts[j].path, Slash)
    /\ \E i \in 1..Len(mounts) :
          mounts[i].path = Slash /\ mounts[i].filesystem = rootFS

-----------------------------------------------------------------------------
(* C8: unmount discards the subtree.  In every state that a successful    *)
(* mount has just led to, the mount appended is of a FileSystem whose root *)
(* has no children: the mount point lists as empty, and no name that a     *)
(* FileSystem unmounted from the same path held can be read or listed      *)
(* under the mount point.                                                  *)

C8_RemountIsEmpty ==
    (last.op = "mount" /\ last.ret = TRUE)
    => LET new == mounts[Len(mounts)]
           listed == MountManager_listDirectory(last.path)
       IN /\ new.path = MountManager_normalizePath(last.path)
          /\ filesystems[new.filesystem].root.children = EmptyMap
          /\ ~listed.null /\ listed.value = {}
          /\ \A d \in discarded :
                d.path = new.path =>
                    \A k \in DOMAIN d.root.children :
                        /\ MountManager_readFile(last.path \o Slash \o k).null
                        /\ MountManager_listDirectory(
                                last.path \o Slash \o k).null

C8_Witness ==
    /\ last.op = "mount" /\ last.path = PathA /\ last.ret = TRUE
    /\ \E d \in discarded : d.path = PathA /\ DOMAIN d.root.children # {}
    /\ mountedAt(PathA)
    /\ filesystems[fsMountedAt(PathA)].root.children = EmptyMap

-----------------------------------------------------------------------------
(* C9: '/' is immutable.  In every state every FileSystem has a root       *)
(* directory with the empty name and the path '/', which findNode('/')     *)
(* returns, no other node has that name or that path, and mkdir,           *)
(* createFile and remove of '/' return false from it and leave it as it    *)
(* is; and the calls mkdir('/'), createFile('/'), remove('/') and          *)
(* unmount('/') return false and change nothing.                           *)

C9_OneRoot ==
    \A id \in DOMAIN filesystems :
        LET fs == filesystems[id]
        IN /\ fs.root.type = DIRECTORY
           /\ fs.root.name = EmptyString
           /\ fs.root.path = Slash
           /\ fs.root.parent = EmptyString
           /\ FileSystem_findNode(fs, Slash, currentDirectory) = fs.root
           /\ \A e \in below(fs.root, <<>>) :
                e.node.name # EmptyString /\ e.node.path # Slash
           /\ FileSystem_mkdir(fs, Slash, currentDirectory)
                = [ret |-> FALSE, fs |-> fs]
           /\ FileSystem_remove(fs, Slash, currentDirectory)
                = [ret |-> FALSE, fs |-> fs]
           /\ \A content \in Contents :
                FileSystem_createFile(fs, Slash, content, currentDirectory)
                    = [ret |-> FALSE, fs |-> fs]

C9_RootCallsFail ==
    (\/ isCall("mkdir", Slash) /\ MkdirCall(Slash)
     \/ isCall("createFile", Slash)
            /\ \E content \in Contents : CreateFileCall(Slash, content)
     \/ isCall("remove", Slash) /\ RemoveCall(Slash)
     \/ isCall("unmount", Slash) /\ UnmountCall(Slash))
    => /\ last'.ret = FALSE
       /\ UNCHANGED <<mounts, filesystems, currentDirectory>>

C9_RootIsImmutable ==
    []C9_OneRoot /\ [][C9_RootCallsFail]_vars

C9_Witness ==
    /\ last.op = "unmount" /\ last.path = Slash /\ last.ret = FALSE
    /\ Len(mounts) > 1
    /\ DOMAIN filesystems[rootFS].root.children # {}

-----------------------------------------------------------------------------
(* C10: FileSystem.remove.  In every state, for every FileSystem and path: *)
(* remove returns true exactly when the path is not the root, its parent   *)
(* is a directory and that directory has the path's last name; then the    *)
(* nodes afterwards are the nodes before that are neither the node at the  *)
(* path nor below it, each as it was; otherwise the FileSystem is as       *)
(* before.                                                                 *)

C10_RemoveIsExact ==
    \A id \in DOMAIN filesystems, path \in PathArgs :
        LET fs == filesystems[id]
            result == FileSystem_remove(fs, path, currentDirectory)
            target == segmentsOf(FileSystem_normalizePath(path, currentDirectory))
            parent == walk(fs.root, SubSeq(target, 1, Len(target) - 1))
            succeeds == /\ target # <<>>
                        /\ parent.type = DIRECTORY
                        /\ target[Len(target)] \in DOMAIN parent.children
        IN /\ result.ret = succeeds
           /\ IF succeeds
              THEN /\ entries(result.fs)
                        = {e \in entries(fs) : ~isPrefix(target, e.segments)}
                   /\ shallow(result.fs.root) = shallow(fs.root)
                   /\ \A e \in below(fs.root, <<>>) :
                        isPrefix(target, e.segments) =>
                            isNull(walk(result.fs.root, e.segments))
              ELSE result.fs = fs

C10_Witness ==
    /\ last.op = "remove" /\ last.path = PathA /\ last.ret = TRUE
    /\ isNull(FileSystem_findNode(filesystems[rootFS], PathA, Slash))
    /\ calls = 2

-----------------------------------------------------------------------------
(* Vocabulary of the properties of one FileSystem.                         *)

\* The segments of the path a FileSystem method is called with, under the
\* caller's current directory.
targetOf(path) ==
    segmentsOf(FileSystem_normalizePath(path, currentDirectory))

\* The node that the parent path of `path` resolves to.
parentOf(fs, path) ==
    FileSystem_findNode(fs,
        parentPathOf(FileSystem_normalizePath(path, currentDirectory)), Slash)

\* `after` is `before` with exactly the node `node` added at `path`.
addedAt(before, after, path, node) ==
    /\ entries(after) = entries(before)
            \cup {[segments |-> targetOf(path), node |-> shallow(node)]}
    /\ walk(after.root, targetOf(path)) = node
    /\ shallow(after.root) = shallow(before.root)

-----------------------------------------------------------------------------
(* C11, as the claim states it: in every state, for every path and         *)
(* content, when the path does not resolve writeFile returns true and the  *)
(* file is there with the content, and writeFile returns false only when   *)
(* the path resolves to a directory.                                       *)

C11_WriteNeverFailsOnAbsence ==
    \A id \in DOMAIN filesystems, path \in PathArgs, content \in Contents :
        LET fs == filesystems[id]
            node == FileSystem_findNode(fs, path, currentDirectory)
            written == FileSystem_writeFile(fs, path, content, currentDirectory)
        IN /\ isNull(node) =>
                /\ written.ret
                /\ FileSystem_readFile(written.fs, path, currentDirectory)
                    = [null |-> FALSE, value |-> content]
           /\ ~written.ret => node.type = DIRECTORY

(* C11, amended: in every state, for every path and content, when the      *)
(* path does not resolve and its parent path resolves to a directory,      *)
(* writeFile returns true and exactly a file of that content is added at   *)
(* the path; and writeFile returns false exactly when the path resolves to *)
(* a directory, or does not resolve and its parent path does not resolve   *)
(* to a directory, and then it changes nothing.                            *)

C11_WriteCreatesUnderDirectory ==
    \A id \in DOMAIN filesystems, path \in PathArgs, content \in Contents :
        LET fs == filesystems[id]
            node == FileSystem_findNode(fs, path, currentDirectory)
            parent == parentOf(fs, path)
            written == FileSystem_writeFile(fs, path, content, currentDirectory)
        IN /\ (isNull(node) /\ parent.type = DIRECTORY) =>
                /\ written.ret
                /\ addedAt(fs, written.fs, path,
                           createFileNode(lastNameOf(
                               FileSystem_normalizePath(path, currentDirectory)),
                               parent, content))
           /\ ~written.ret <=>
                \/ node.type = DIRECTORY
                \/ isNull(node) /\ parent.type # DIRECTORY
           /\ ~written.ret => written.fs = fs

C11_Witness ==
    /\ last.op = "writeFile" /\ last.path = PathAB /\ last.ret = TRUE
    /\ calls = 2
    /\ currentDirectory = Slash
    /\ ~FileSystem_readFile(filesystems[rootFS], PathAB, Slash).null
    /\ FileSystem_findNode(filesystems[rootFS], PathA, Slash).type = DIRECTORY

-----------------------------------------------------------------------------
(* C12: write/read round trip.  In every state, for every path and         *)
(* content, when writeFile returns true a readFile of the same path        *)
(* directly after it returns the content written, whatever was or was not  *)
(* at the path before; and on an empty FileSystem a writeFile of a path    *)
(* of one segment returns true, with nothing created before it, and        *)
(* readFile returns the content.                                           *)

C12_WriteReadRoundTrip ==
    \A id \in DOMAIN filesystems, path \in PathArgs, content \in Contents :
        LET fs == filesystems[id]
            written == FileSystem_writeFile(fs, path, content, currentDirectory)
            empty == FileSystem_new("default", "ext4")
            first == FileSystem_writeFile(empty, path, content, currentDirectory)
        IN /\ written.ret =>
                FileSystem_readFile(written.fs, path, currentDirectory)
                    = [null |-> FALSE, value |-> content]
           /\ Len(targetOf(path)) = 1 =>
                /\ first.ret
                /\ FileSystem_readFile(first.fs, path, currentDirectory)
                    = [null |-> FALSE, value |-> content]

C12_Witness ==
    /\ last.op = "writeFile" /\ last.path = PathA /\ last.ret = TRUE
    /\ calls = 1
    /\ DOMAIN filesystems[rootFS].root.children = {<<"a">>}
    /\ FileSystem_readFile(filesystems[rootFS], PathA, Slash)
            = [null |-> FALSE, value |-> "x"]

-----------------------------------------------------------------------------
(* C13, as the claim states it: in every state, for every path and         *)
(* content, after createFile of the path and the content, readFile of the  *)
(* path returns the content.                                               *)

C13_CreateReadAnyPath ==
    \A id \in DOMAIN filesystems, path \in PathArgs, content \in Contents :
        LET created == FileSystem_createFile(filesystems[id], path, content,
                                             currentDirectory)
        IN FileSystem_readFile(created.fs, path, currentDirectory)
                = [null |-> FALSE, value |-> content]

(* C13, amended: in every state, for every path and content, when          *)
(* createFile returns true, readFile of the path directly after it         *)
(* returns the content; and createFile of /a/b returns true, and is read   *)
(* back, whenever /a is a directory that has no b.                         *)

C13_CreateReadRoundTrip ==
    \A id \in DOMAIN filesystems, content \in Contents :
        LET fs == filesystems[id]
            a == FileSystem_findNode(fs, PathA, Slash)
            ab == FileSystem_createFile(fs, PathAB, content, Slash)
        IN /\ \A path \in PathArgs :
                LET created == FileSystem_createFile(fs, path, content,
                                                     currentDirectory)
                IN created.ret =>
                        FileSystem_readFile(created.fs, path, currentDirectory)
                            = [null |-> FALSE, value |-> content]
           /\ (a.type = DIRECTORY /\ <<"b">> \notin DOMAIN a.children) =>
                /\ ab.ret
                /\ FileSystem_readFile(ab.fs, PathAB, Slash)
                        = [null |-> FALSE, value |-> content]

C13_Witness ==
    /\ last.op = "createFile" /\ last.path = PathAB /\ last.ret = TRUE
    /\ FileSystem_readFile(filesystems[rootFS], PathAB, Slash)
            = [null |-> FALSE, value |-> "x"]

-----------------------------------------------------------------------------
(* C14: mkdir and createFile.  In every state, for every path (and         *)
(* content), each of the two returns false exactly when the path           *)
(* normalizes to the root, or its parent path does not resolve to a        *)
(* directory, or that directory has a child of the path's last name, file  *)
(* or directory; then the FileSystem is as before.  Otherwise it returns   *)
(* true and the FileSystem is as before with exactly one node added at     *)
(* the path: an empty directory, or a file of the given content.           *)

C14_CreateIsExact ==
    \A id \in DOMAIN filesystems, path \in PathArgs :
        LET fs == filesystems[id]
            normalized == FileSystem_normalizePath(path, currentDirectory)
            parent == parentOf(fs, path)
            name == lastNameOf(normalized)
            fails == \/ normalized = Slash
                     \/ parent.type # DIRECTORY
                     \/ name \in DOMAIN parent.children
            made == FileSystem_mkdir(fs, path, currentDirectory)
        IN /\ made.ret = ~fails
           /\ IF fails THEN made.fs = fs
              ELSE addedAt(fs, made.fs, path,
                     [name |-> name, type |-> DIRECTORY,
                      parent |-> parentPathOf(normalized),
                      path |-> normalized, children |-> EmptyMap])
           /\ \A content \in Contents :
                LET created == FileSystem_createFile(fs, path, content,
                                                     currentDirectory)
                IN /\ created.ret = ~fails
                   /\ IF fails THEN created.fs = fs
                      ELSE addedAt(fs, created.fs, path,
                             [name |-> name, type |-> FILE,
                              parent |-> parentPathOf(normalized),
                              path |-> normalized, content |-> content])

C14_Witness ==
    /\ last.op = "mkdir" /\ last.path = PathA /\ last.ret = FALSE
    /\ currentDirectory = Slash
    /\ FileSystem_findNode(filesystems[rootFS], PathA, Slash).type = FILE
    /\ FileSystem_findNode(filesystems[rootFS], PathA, Slash).content = "x"

-----------------------------------------------------------------------------
(* C15: type mismatch.  In every state, for every path: when the path      *)
(* resolves to a file, listDirectory returns null; when it resolves to a   *)
(* directory, readFile returns null and writeFile returns false and        *)
(* leaves the FileSystem as it is; every node is a file with a content     *)
(* and no children or a directory with children and no content.  And in    *)
(* every step, every node of a FileSystem that is still at its path after  *)
(* the step has the type it had before.                                    *)

C15_MismatchRejected ==
    \A id \in DOMAIN filesystems :
        LET fs == filesystems[id]
        IN /\ \A path \in PathArgs :
                LET node == FileSystem_findNode(fs, path, currentDirectory)
                IN /\ node.type = FILE =>
                        FileSystem_listDirectory(fs, path, currentDirectory).null
                   /\ node.type = DIRECTORY =>
                        /\ FileSystem_readFile(fs, path, currentDirectory).null
                        /\ \A content \in Contents :
                                FileSystem_writeFile(fs, path, content,
                                                     currentDirectory)
                                    = [ret |-> FALSE, fs |-> fs]
           /\ \A e \in below(fs.root, <<>>) :
                \/ /\ e.node.type = FILE
                   /\ DOMAIN e.node = {"name", "type", "parent", "path", "content"}
                \/ /\ e.node.type = DIRECTORY
                   /\ DOMAIN e.node = {"name", "type", "parent", "path", "children"}

C15_TypesKept ==
    \A id \in DOMAIN filesystems :
        id \in DOMAIN filesystems' =>
            \/ filesystems'[id] = filesystems[id]
            \/ \A e \in below(filesystems[id].root, <<>>) :
                    LET after == walk(filesystems'[id].root, e.segments)
                    IN isNull(after) \/ after.type = e.node.type

C15_TypeMismatch ==
    []C15_MismatchRejected /\ [][C15_TypesKept]_vars

C15_Witness ==
    /\ last.op = "listDirectory" /\ last.path = PathA
    /\ last.ret.null
    /\ currentDirectory = Slash
    /\ FileSystem_findNode(filesystems[rootFS], PathA, Slash).type = FILE

-----------------------------------------------------------------------------
(* C16: no partial mutation on failure.  In every state, for every path    *)
(* and content, each of mkdir, mkdirRecursive, createFile, writeFile and   *)
(* remove that returns false leaves the FileSystem as it was; so a         *)
(* mkdirRecursive that returns false has created no directory.             *)

C16_FailureChangesNothing ==
    \A id \in DOMAIN filesystems, path \in PathArgs :
        LET fs == filesystems[id]
            unchangedIfFailed(result) == ~result.ret => result.fs = fs
        IN /\ unchangedIfFailed(FileSystem_mkdir(fs, path, currentDirectory))
           /\ unchangedIfFailed(
                FileSystem_mkdirRecursive(fs, path, currentDirectory))
           /\ unchangedIfFailed(FileSystem_remove(fs, path, currentDirectory))
           /\ \A content \in Contents :
                /\ unchangedIfFailed(
                     FileSystem_createFile(fs, path, content, currentDirectory))
                /\ unchangedIfFailed(
                     FileSystem_writeFile(fs, path, content, currentDirectory))

C16_Witness ==
    /\ last.op = "mkdirRecursive" /\ last.path = PathABC /\ last.ret = FALSE
    /\ currentDirectory = Slash
    /\ FileSystem_findNode(filesystems[rootFS], PathA, Slash).type = DIRECTORY
    /\ FileSystem_findNode(filesystems[rootFS], PathAB, Slash).type = FILE
    /\ isNull(FileSystem_findNode(filesystems[rootFS], PathABC, Slash))

-----------------------------------------------------------------------------
(* C17: mkdirRecursive on an existing directory.  In every state, for      *)
(* every path: when the path resolves to a directory in a FileSystem,      *)
(* mkdirRecursive of it on that FileSystem returns true and leaves the     *)
(* FileSystem as it is, and so does a second call after it; and when the   *)
(* path resolves to a directory through the MountManager, its              *)
(* mkdirRecursive returns true and leaves the responsible FileSystem as    *)
(* it is.                                                                  *)

C17_SafeOnExistingDirectory ==
    \A path \in PathArgs :
        /\ \A id \in DOMAIN filesystems :
                LET fs == filesystems[id]
                    node == FileSystem_findNode(fs, path, currentDirectory)
                    once == FileSystem_mkdirRecursive(fs, path, currentDirectory)
                    twice == FileSystem_mkdirRecursive(once.fs, path,
                                                       currentDirectory)
                IN node.type = DIRECTORY =>
                        /\ once = [ret |-> TRUE, fs |-> fs]
                        /\ twice = [ret |-> TRUE, fs |-> fs]
        /\ LET r == routed(path)
               node == FileSystem_findNode(filesystems[r.fs], r.relativePath,
                                           Slash)
           IN node.type = DIRECTORY =>
                    MountManager_mkdirRecursive(path)
                        = [ret |-> TRUE, fs |-> filesystems[r.fs]]

-----------------------------------------------------------------------------
(* C18: mkdirRecursive.  In every state, for every path: mkdirRecursive    *)
(* returns false exactly when the path normalizes to the root or one of    *)
(* its prefixes, the path itself included, resolves to a file, and then    *)
(* the FileSystem is as before; otherwise it returns true, every prefix    *)
(* of the path resolves to a directory afterwards, every node there was    *)
(* before is there unchanged, and every node added is a directory at one   *)
(* of the prefixes.                                                        *)

C18_MkdirRecursiveIsExact ==
    \A id \in DOMAIN filesystems, path \in PathArgs :
        LET fs == filesystems[id]
            target == targetOf(path)
            prefixes == {SubSeq(target, 1, n) : n \in 1..Len(target)}
            fails == \/ target = <<>>
                     \/ \E p \in prefixes : walk(fs.root, p).type = FILE
            made == FileSystem_mkdirRecursive(fs, path, currentDirectory)
        IN /\ made.ret = ~fails
           /\ IF fails THEN made.fs = fs
              ELSE /\ \A p \in prefixes :
                        walk(made.fs.root, p).type = DIRECTORY
                   /\ entries(fs) \subseteq entries(made.fs)
                   /\ shallow(made.fs.root) = shallow(fs.root)
                   /\ \A e \in entries(made.fs) \ entries(fs) :
                        /\ e.segments \in prefixes
                        /\ e.node.type = DIRECTORY

C18_Witness ==
    /\ last.op = "mkdirRecursive" /\ last.path = PathABC /\ last.ret = TRUE
    /\ calls = 2
    /\ currentDirectory = Slash
    /\ FileSystem_findNode(filesystems[rootFS], PathABC, Slash).type = DIRECTORY
    /\ \E k \in DOMAIN filesystems[rootFS].root.children :
            filesystems[rootFS].root.children[k].type = FILE

-----------------------------------------------------------------------------
(* C19: normalization is idempotent.  In every state that a call of        *)
(* FileSystem.normalizePath has led to, normalizePath of what it returned  *)
(* returns the same, under every current directory; and in every state    *)
(* that a call of MountManager.normalizePath has led to, that method       *)
(* returns what it returned when called with it.                           *)

C19_NormalizeIsIdempotent ==
    /\ last.op = "FileSystem.normalizePath" =>
            \A currentDir \in NormalizeDirs \cup {currentDirectory} :
                FileSystem_normalizePath(last.ret, currentDir) = last.ret
    /\ last.op = "MountManager.normalizePath" =>
            MountManager_normalizePath(last.ret) = last.ret

C19_Witness ==
    /\ last.op = "FileSystem.normalizePath"
    /\ last.path = <<"/", "a", "/", "/", "a", "/", ".", "/", "a", "/">>
    /\ last.ret = <<"/", "a", "/", "a", "/", "a">>

-----------------------------------------------------------------------------
(* C20: '..' at the root is absorbed.  In every state that a call of       *)
(* FileSystem.normalizePath has led to, what it returned starts with '/'   *)
(* and, unless it is '/', has no empty, '.' or '..' segment; an absolute   *)
(* path with '/..' put in front of it normalizes to the same; and          *)
(* '/../../a' has normalized to '/a'.                                      *)

C20_DotDotAbsorbedAtRoot ==
    last.op = "FileSystem.normalizePath" =>
        /\ isAbsoluteNormalized(last.ret)
        /\ startsWith(last.path, Slash) =>
                FileSystem_normalizePath(<<"/", ".", ".">> \o last.path,
                                         currentDirectory) = last.ret
        /\ last.path = <<"/", ".", ".", "/", ".", ".", "/", "a">> =>
                last.ret = PathA

C20_Witness ==
    /\ last.op = "FileSystem.normalizePath"
    /\ last.path = <<"/", ".", ".", "/", ".", ".", "/", "a">>
    /\ last.ret = PathA

-----------------------------------------------------------------------------
(* C21: the tree.  In every state, in every FileSystem, every node below   *)
(* the root is held by its directory under its own name, has that          *)
(* directory as its parent, has as its path the directory's path joined    *)
(* with its name by one separator, and is what findNode of its path        *)
(* returns; and findNode of the root's path returns the root.              *)

C21_TreeIsConsistent ==
    \A id \in DOMAIN filesystems :
        LET fs == filesystems[id]
        IN /\ FileSystem_findNode(fs, fs.root.path, currentDirectory) = fs.root
           /\ \A e \in below(fs.root, <<>>) :
                LET holder == walk(fs.root,
                                   SubSeq(e.segments, 1, Len(e.segments) - 1))
                    key == e.segments[Len(e.segments)]
                IN /\ e.node.name = key
                   /\ e.node.parent = holder.path
                   /\ e.node.path
                        = collapseSlashes(holder.path \o Slash \o e.node.name)
                   /\ ~startsWith(e.node.path, <<"/", "/">>)
                   /\ FileSystem_findNode(fs, e.node.path, currentDirectory)
                        = e.node

C21_Witness ==
    /\ last.op = "createFile" /\ last.path = <<"b">> /\ last.ret = TRUE
    /\ currentDirectory = PathA
    /\ FileSystem_findNode(filesystems[rootFS], PathAB, Slash).type = FILE
    /\ FileSystem_findNode(filesystems[rootFS], PathAB, Slash).path = PathAB
    /\ FileSystem_findNode(filesystems[rootFS], PathAB, Slash).parent = PathA

-----------------------------------------------------------------------------
(* Vocabulary of the properties of mount and unmount.                      *)

\* The prefixes of a sequence of segments, the sequence itself included.
prefixesOf(segments) == {SubSeq(segments, 1, n) : n \in 1..Len(segments)}

\* What mount(fsType, mountPoint) is to do when `normalized` is the mount
\* point normalized: fail without a change when a mount has that path or a
\* prefix of it is a file in the FileSystem responsible for it, and
\* otherwise append one mount of a new, empty FileSystem, the path being a
\* directory of the responsible FileSystem.
mountsAsClaimed(fsType, mountPoint, normalized) ==
    LET owner == findResponsibleFilesystem(normalized)
        fs == filesystems[owner.fs]
        target == segmentsOf(FileSystem_normalizePath(owner.relativePath, Slash))
        fails == \/ \E i \in 1..Len(mounts) : mounts[i].path = normalized
                 \/ \E p \in prefixesOf(target) : walk(fs.root, p).type = FILE
        result == MountManager_mount(fsType, mountPoint)
    IN /\ result.ret = ~fails
       /\ IF fails
          THEN result.mounts = mounts /\ result.filesystems = filesystems
          ELSE LET new == result.mounts[Len(result.mounts)]
               IN /\ result.mounts = Append(mounts, new)
                  /\ new.path = normalized
                  /\ new.filesystem \notin DOMAIN filesystems
                  /\ DOMAIN result.filesystems
                        = DOMAIN filesystems \cup {new.filesystem}
                  /\ result.filesystems[new.filesystem].root
                        = [ROOT_DIRECTORY EXCEPT !.children = EmptyMap]
                  /\ walk(result.filesystems[owner.fs].root, target).type
                        = DIRECTORY
                  /\ entries(fs) \subseteq entries(result.filesystems[owner.fs])
                  /\ \A id \in DOMAIN filesystems \ {owner.fs} :
                        result.filesystems[id] = filesystems[id]

-----------------------------------------------------------------------------
(* C22: mount.  In every state, for every mount point: mount returns       *)
(* false, and leaves the mounts and every FileSystem as they are, when a   *)
(* mount exists at the normalized mount point or a prefix of it is a file  *)
(* in the FileSystem responsible for it; otherwise it returns true,        *)
(* appends exactly one mount, of a new FileSystem with an empty root, at   *)
(* the normalized mount point, which is then a directory of the            *)
(* responsible FileSystem.                                                 *)

C22_MountIsExact ==
    \A fsType \in FsTypes, mountPoint \in MountPoints :
        mountsAsClaimed(fsType, mountPoint,
                        FileSystem_normalizePath(mountPoint, currentDirectory))

\* What unmount(mountPoint) is to do when `normalized` is the mount point
\* normalized: fail without a change when that is '/' or no mount has that
\* path, and otherwise remove that one mount, every other mount and the
\* tree of every other FileSystem staying as they are.
unmountsAsClaimed(mountPoint, normalized) ==
    LET I == {i \in 1..Len(mounts) : mounts[i].path = normalized}
        fails == normalized = Slash \/ I = {}
        result == MountManager_unmount(mountPoint)
    IN /\ result.ret = ~fails
       /\ IF fails
          THEN result.mounts = mounts /\ result.filesystems = filesystems
          ELSE \E i \in I :
                 /\ result.mounts = SubSeq(mounts, 1, i - 1)
                                    \o SubSeq(mounts, i + 1, Len(mounts))
                 /\ \A id \in DOMAIN filesystems \ {mounts[i].filesystem} :
                        /\ id \in DOMAIN result.filesystems
                        /\ result.filesystems[id] = filesystems[id]

-----------------------------------------------------------------------------
(* C23: unmount.  In every state, for every mount point: unmount returns   *)
(* false and changes nothing when the mount point normalizes to '/' or no  *)
(* mount has exactly the normalized path; otherwise it returns true and    *)
(* removes exactly that mount, every other mount and the tree of every     *)
(* other FileSystem staying as they are.  No unmount call changes the      *)
(* current directory.                                                      *)

C23_UnmountKeepsDirectory ==
    last'.op = "unmount" /\ calls' # calls
        => currentDirectory' = currentDirectory

C23_UnmountAsClaimed ==
    \A mountPoint \in MountPoints \cup PathArgs :
        unmountsAsClaimed(mountPoint,
                          FileSystem_normalizePath(mountPoint, currentDirectory))

C23_UnmountIsExact == []C23_UnmountAsClaimed /\ [][C23_UnmountKeepsDirectory]_vars

-----------------------------------------------------------------------------
(* C24: setCurrentDirectory.  In every state, for every argument:          *)
(* setCurrentDirectory returns true only if the argument, normalized       *)
(* against the current directory, is the path of a directory in the        *)
(* FileSystem responsible for it; and when it returns false the current    *)
(* directory is the one before the call.                                   *)

\* The arguments tried: the path arguments of the calls and /a/../b, which
\* names /b.
C24_Dirs == PathArgs \cup {<<"/", "a", "/", ".", ".", "/", "b">>}

C24_ChangesToDirectory ==
    \A newDir \in C24_Dirs :
        LET result == MountManager_setCurrentDirectory(newDir)
            normalized == FileSystem_normalizePath(newDir, currentDirectory)
            owner == findResponsibleFilesystem(normalized)
            node == FileSystem_findNode(filesystems[owner.fs],
                                        owner.relativePath, Slash)
        IN /\ result.ret => node.type = DIRECTORY
           /\ ~result.ret => result.currentDirectory = currentDirectory

-----------------------------------------------------------------------------
(* C25: only setCurrentDirectory moves the current directory.  A step      *)
(* that changes the current directory is a setCurrentDirectory call that   *)
(* returned true: every other call leaves it as it is, also a remove of    *)
(* the directory it names and an unmount of the mount it names.            *)

C25_OnlySetCurrentDirectoryMoves ==
    [][currentDirectory' # currentDirectory
          => last'.op = "setCurrentDirectory" /\ last'.ret = TRUE]_vars

\* The directory /a, the current directory, has just been removed.
C25_Witness ==
    /\ last.op = "remove" /\ last.path = PathA /\ last.ret = TRUE
    /\ currentDirectory = PathA
    /\ isNull(FileSystem_findNode(filesystems[rootFS], PathA, Slash))

-----------------------------------------------------------------------------
(* C26: side effects are confined.  A mkdir, mkdirRecursive, createFile,   *)
(* writeFile or remove call changes neither the mounts nor the set of      *)
(* FileSystems, and changes the tree of at most one FileSystem: the one of *)
(* the longest mount covering the path of the call.  A readFile or         *)
(* listDirectory call changes no mount, no FileSystem and not the current  *)
(* directory.                                                              *)

C26_Mutators == {"mkdir", "mkdirRecursive", "createFile", "writeFile", "remove"}

C26_Readers == {"readFile", "listDirectory"}

\* The mount is the longest one covering the path.
C26_Owns(i, path) ==
    /\ covers(mounts[i].path, path)
    /\ \A j \in 1..Len(mounts) :
          covers(mounts[j].path, path) => Len(mounts[j].path) <= Len(mounts[i].path)

C26_MutatorConfined ==
    last'.op \in C26_Mutators =>
        /\ mounts' = mounts
        /\ DOMAIN filesystems' = DOMAIN filesystems
        /\ \E i \in 1..Len(mounts) :
              /\ C26_Owns(i, MountManager_normalizePath(last'.path))
              /\ \A id \in DOMAIN filesystems \ {mounts[i].filesystem} :
                    filesystems'[id] = filesystems[id]

C26_ReaderChangesNothing ==
    last'.op \in C26_Readers =>
        /\ mounts' = mounts
        /\ filesystems' = filesystems
        /\ currentDirectory' = currentDirectory

C26_SideEffectsConfined ==
    [][C26_MutatorConfined /\ C26_ReaderChangesNothing]_vars

\* writeFile('/a/b') has just made the file b in the FileSystem mounted at
\* /a, and the root FileSystem has nothing below its directory a.
C26_Witness ==
    /\ last.op = "writeFile" /\ last.path = PathAB /\ last.ret = TRUE
    /\ mountedAt(PathA)
    /\ FileSystem_findNode(filesystems[fsMountedAt(PathA)], <<"/", "b">>, Slash).type = FILE
    /\ isNull(FileSystem_findNode(filesystems[rootFS], PathAB, Slash))

-----------------------------------------------------------------------------
(* ShellSpec: a session at the terminal, of at most MaxShellCalls calls:   *)
(* the user changes the directory, makes /a and /a/b, mounts and unmounts  *)
(* at /a,                                                                  *)
(* writes and reads files, and copies with the cp command, which the       *)
(* CommandParser carries out on its MountManager.                          *)

\* The number of calls a run of ShellSpec makes.
MaxShellCalls == 4

ShellDirs == { <<"/">>, <<"/", "a">>, <<"/", "a", "/", "b">> }

\* The directories the user makes.
ShellNewDirs == { <<"/", "a">>, <<"/", "a", "/", "b">> }

ShellPaths == { <<"/", "a", "/", "b">>, <<"b">>, <<"/", "c">> }

\* The arguments of cp: a source alone, or a source and a destination.
CopyArgs ==
    {<<source>> : source \in ShellPaths}
        \cup {<<source, dest>> : source \in ShellPaths, dest \in ShellPaths}

\* handleCopy taking an empty content for an unreadable source: the variant
\* that tests `!content` in place of `content === null`.
handleCopy_skippingEmpty(args) ==
    LET content == MountManager_readFile(args[1])
        written == MountManager_writeFile(args[2], content.value)
    IN IF Len(args) < 2 \/ content.null \/ content.value = ""
       THEN [success |-> FALSE, filesystems |-> filesystems]
       ELSE [success |-> written.ret,
             filesystems |->
                 [filesystems EXCEPT ![routed(args[2]).fs] = written.fs]]

\* The cp command: [success, filesystems]
handleCopy(args) ==
    LET content == MountManager_readFile(args[1])
        written == MountManager_writeFile(args[2], content.value)
    IN IF Len(args) < 2 \/ content.null
       THEN [success |-> FALSE, filesystems |-> filesystems]
       ELSE [success |-> written.ret,
             filesystems |->
                 [filesystems EXCEPT ![routed(args[2]).fs] = written.fs]]

CopyCall(args) ==
    LET result == handleCopy(args)
    IN /\ filesystems' = result.filesystems
       /\ calls' = calls + 1
       /\ last' = [op |-> "cp", path |-> args[1], args |-> args,
                   ret |-> result.success]
       /\ UNCHANGED <<mounts, currentDirectory, discarded>>

ShellCd ==
    calls < MaxShellCalls
    /\ \E newDir \in ShellDirs : SetCurrentDirectoryCall(newDir)

ShellMkdir ==
    calls < MaxShellCalls /\ \E path \in ShellNewDirs : MkdirCall(path)

ShellMount ==
    calls < MaxShellCalls
    /\ \E fsType \in FsTypes : MountCall(fsType, <<"/", "a">>)

ShellUnmount ==
    calls < MaxShellCalls /\ UnmountCall(<<"/", "a">>)

ShellWriteFile ==
    calls < MaxShellCalls
    /\ \E path \in ShellPaths, content \in Contents :
        WriteFileCall(path, content)

ShellReadFile ==
    calls < MaxShellCalls /\ \E path \in ShellPaths : ReadFileCall(path)

ShellCopy ==
    calls < MaxShellCalls /\ \E args \in CopyArgs : CopyCall(args)

ShellNext ==
    \/ ShellCd
    \/ ShellMkdir
    \/ ShellMount
    \/ ShellUnmount
    \/ ShellWriteFile
    \/ ShellReadFile
    \/ ShellCopy

ShellSpec == Init /\ [][ShellNext]_vars

-----------------------------------------------------------------------------
(* C27: cp is readFile of the source, then writeFile of the destination.   *)
(* A cp of a source that readFile does not read as a file fails and        *)
(* changes no FileSystem, no mount and not the current directory; a cp of  *)
(* a readable source returns what writeFile of the destination with the    *)
(* content read returns; and after a cp that succeeded, readFile of the    *)
(* destination gives the content readFile of the source gave before, and   *)
(* readFile of the source gives it still, whichever FileSystems the two    *)
(* paths are routed to.                                                    *)

\* What readFile(path) returns when the FileSystems are `fss`, the mounts
\* and the current directory being those of the state.
C27_readFileIn(fss, path) ==
    LET r == routed(path)
    IN FileSystem_readFile(fss[r.fs], r.relativePath, Slash)

C27_CopyStep ==
    \A source \in ShellPaths, dest \in ShellPaths :
      (last'.op = "cp" /\ last'.args = <<source, dest>>) =>
        LET before == MountManager_readFile(source)
        IN /\ before.null =>
                /\ last'.ret = FALSE
                /\ filesystems' = filesystems
                /\ mounts' = mounts
                /\ currentDirectory' = currentDirectory
           /\ ~before.null =>
                last'.ret = MountManager_writeFile(dest, before.value).ret
           /\ last'.ret = TRUE =>
                /\ ~before.null
                /\ mounts' = mounts
                /\ currentDirectory' = currentDirectory
                /\ ~C27_readFileIn(filesystems', dest).null
                /\ C27_readFileIn(filesystems', dest).value = before.value
                /\ ~C27_readFileIn(filesystems', source).null
                /\ C27_readFileIn(filesystems', source).value = before.value

C27_CopyIsReadThenWrite == [][C27_CopyStep]_vars

\* cp /c /a/b has just copied the file c of the root FileSystem to the file
\* b of the FileSystem mounted at /a.
C27_Witness ==
    /\ last.op = "cp" /\ last.ret = TRUE
    /\ last.args = << PathC, PathAB >>
    /\ mountedAt(PathA)
    /\ FileSystem_readFile(filesystems[rootFS], PathC, Slash)
          = [null |-> FALSE, value |-> "x"]
    /\ FileSystem_readFile(filesystems[fsMountedAt(PathA)], <<"/", "b">>, Slash)
          = [null |-> FALSE, value |-> "x"]

-----------------------------------------------------------------------------
(* C28: mounts match whole segments.  In every state, for every absolute   *)
(* path: findResponsibleFilesystem takes a mount only if the path is the   *)
(* mount's path or starts with the mount's path and a '/'; of these mounts *)
(* it takes the longest and hands on the path without the mount's path,    *)
(* '/' when the two are equal; and when there is no such mount it takes    *)
(* the root FileSystem with the whole path.  So /ab, with a mount at /a,   *)
(* goes to the root FileSystem as /ab.                                     *)

PathAb == <<"/", "a", "b">>

\* The absolute paths tried: the path arguments as the MountManager
\* normalizes them, and paths that begin with the letters of /a.
C28_Paths ==
    {MountManager_normalizePath(path) : path \in PathArgs}
        \cup {PathAb, <<"/", "a", "b", "/", "c">>, <<"/", "a", "/", "b", "c">>}

C28_Matches(i, path) ==
    path = mounts[i].path \/ startsWith(path, mounts[i].path \o Slash)

C28_WholeSegments ==
    \A path \in C28_Paths :
        LET r == findResponsibleFilesystem(path)
            matching == {i \in 1..Len(mounts) : C28_Matches(i, path)}
        IN IF matching = {}
           THEN r.fs = rootFS /\ r.relativePath = path
           ELSE \E i \in matching :
                  /\ \A j \in matching :
                        Len(mounts[j].path) <= Len(mounts[i].path)
                  /\ r.fs = mounts[i].filesystem
                  /\ r.relativePath =
                        IF path = mounts[i].path THEN Slash
                        ELSE SubSeq(path, Len(mounts[i].path) + 1, Len(path))

\* With a mount at /a, /ab goes to the root FileSystem and /a/b to the
\* mounted one, as /b.
C28_Witness ==
    /\ last.op = "mount" /\ last.ret = TRUE
    /\ mountedAt(PathA)
    /\ findResponsibleFilesystem(PathAb).fs = rootFS
    /\ findResponsibleFilesystem(PathAb).relativePath = PathAb
    /\ findResponsibleFilesystem(PathAB).fs = fsMountedAt(PathA)
    /\ findResponsibleFilesystem(PathAB).relativePath = <<"/", "b">>

-----------------------------------------------------------------------------
(* C29: the mounts are looked up at every call.  When a mount has just     *)
(* been added at the current directory or at a directory above it, the     *)
(* relative path b is routed to the new FileSystem, as the path below the  *)
(* mount; when that mount has just been removed, b is routed to the root   *)
(* FileSystem, which held the directory before, as the whole path.  And a  *)
(* writeFile of b that succeeds, with the current directory at or below    *)
(* /a, makes the file in the FileSystem mounted at /a and leaves the root  *)
(* FileSystem as it was when there is a mount at /a, and makes it in the   *)
(* root FileSystem when there is none.                                     *)

PathB == <<"b">>

\* The absolute path that the relative path b names.
C29_Target == FileSystem_normalizePath(PathB, currentDirectory)

C29_RoutedByMounts ==
    /\ (last.op = "mount" /\ last.ret = TRUE
            /\ last.path # Slash /\ covers(last.path, currentDirectory)) =>
          /\ mounts[Len(mounts)].path = last.path
          /\ routed(PathB).fs = mounts[Len(mounts)].filesystem
          /\ routed(PathB).relativePath
                = SubSeq(C29_Target, Len(last.path) + 1, Len(C29_Target))
    /\ (last.op = "unmount" /\ last.ret = TRUE
            /\ covers(last.path, currentDirectory)) =>
          /\ routed(PathB).fs = rootFS
          /\ routed(PathB).relativePath = C29_Target

C29_WriteFollowsMounts ==
    (last'.op = "writeFile" /\ last'.path = PathB /\ last'.ret = TRUE
        /\ covers(PathA, currentDirectory)) =>
        IF mountedAt(PathA)
        THEN /\ filesystems'[rootFS] = filesystems[rootFS]
             /\ ~FileSystem_readFile(
                    filesystems'[fsMountedAt(PathA)],
                    SubSeq(C29_Target, Len(PathA) + 1, Len(C29_Target)),
                    Slash).null
        ELSE ~FileSystem_readFile(filesystems'[rootFS], C29_Target, Slash).null

C29_MountsLookedUpPerCall ==
    []C29_RoutedByMounts /\ [][C29_WriteFollowsMounts]_vars

\* The current directory is /a, the mount at /a has just been removed after
\* three earlier calls, and b is the path /a/b of the root FileSystem.
C29_Witness ==
    /\ calls = 4
    /\ last.op = "unmount" /\ last.ret = TRUE /\ last.path = PathA
    /\ currentDirectory = PathA
    /\ discarded # {}
    /\ routed(PathB) = [fs |-> rootFS, relativePath |-> PathAB]

-----------------------------------------------------------------------------
(* C30: a mount shadows, an unmount restores.  While a mount is at /a, no  *)
(* path that names an existing node of the root FileSystem at or below /a  *)
(* is routed to the root FileSystem; no call made while the mount is       *)
(* there, the unmount included, changes what the root FileSystem has at    *)
(* and below /a; and when the mount at /a has just been removed and no     *)
(* other mount matches /a/b, that path is routed to the root FileSystem    *)
(* again.                                                                  *)

\* The paths tried: the path arguments of the calls and /./a/b, which
\* names /a/b.
C30_Paths == PathArgs \cup {<<"/", ".", "/", "a", "/", "b">>}

\* What the root FileSystem has at /a.
C30_Shadowed(fss) == walk(fss[rootFS].root, << <<"a">> >>)

C30_Unreachable ==
    mountedAt(PathA) =>
        \A path \in C30_Paths :
            LET normalized == FileSystem_normalizePath(path, currentDirectory)
            IN (/\ covers(PathA, normalized)
                /\ ~isNull(FileSystem_findNode(filesystems[rootFS], normalized, Slash)))
                  => routed(path).fs # rootFS

C30_ReachableAgain ==
    (/\ last.op = "unmount" /\ last.ret = TRUE /\ last.path = PathA
     /\ \A i \in 1..Len(mounts) :
           mounts[i].path # Slash => ~C28_Matches(i, PathAB))
        => routed(PathAB) = [fs |-> rootFS, relativePath |-> PathAB]

C30_Kept ==
    mountedAt(PathA) => C30_Shadowed(filesystems') = C30_Shadowed(filesystems)

C30_MountShadows ==
    [](C30_Unreachable /\ C30_ReachableAgain) /\ [][C30_Kept]_vars

-----------------------------------------------------------------------------
(* C31: no mount is on a file.  In every state, for every mount other than *)
(* '/': the mount's path is not the path of a file in the FileSystem that  *)
(* is responsible for the path when that mount is left out.                *)

\* The mounts without the i-th.
C31_Others(i) == SubSeq(mounts, 1, i - 1) \o SubSeq(mounts, i + 1, Len(mounts))

C31_NoMountOnFile ==
    \A i \in 1..Len(mounts) :
        mounts[i].path # Slash =>
            LET owner == firstResponsible(sortMounts(C31_Others(i), <<>>),
                                          mounts[i].path)
                node == FileSystem_findNode(filesystems[owner.fs],
                                            owner.relativePath, Slash)
            IN node.type # FILE

-----------------------------------------------------------------------------
(* C32: a mount outlives what is above it.  A remove call whose path is    *)
(* above the path of a mount, and an unmount call that succeeds at a path  *)
(* above the path of a mount, leave that mount in the mounts with its      *)
(* FileSystem as it was, and the mount's path and the paths below it are   *)
(* routed to that FileSystem after the call as before.                     *)

\* The path is above the path of the i-th mount.
C32_Above(path, i) ==
    startsWith(FileSystem_normalizePath(mounts[i].path, Slash), path \o Slash)

C32_Survives(i, mountsAfter, filesystemsAfter) ==
    /\ \E j \in 1..Len(mountsAfter) : mountsAfter[j] = mounts[i]
    /\ mounts[i].filesystem \in DOMAIN filesystemsAfter
    /\ filesystemsAfter[mounts[i].filesystem] = filesystems[mounts[i].filesystem]
    /\ \A path \in {mounts[i].path, mounts[i].path \o PathC} :
          firstResponsible(sortMounts(mountsAfter, <<>>), path)
              = findResponsibleFilesystem(path)

C32_Step ==
    \A path \in PathArgs \cup MountPoints :
        ((\/ last'.op = "remove"
          \/ last'.op = "unmount" /\ last'.ret = TRUE)
         /\ last'.path = path) =>
            \A i \in 1..Len(mounts) :
                C32_Above(FileSystem_normalizePath(path, currentDirectory), i)
                    => C32_Survives(i, mounts', filesystems')

C32_MountsOutliveAncestors == [][C32_Step]_vars

\* remove('/a') has just removed the directory a of the root FileSystem; the
\* mount at /a/b is there, and the file /a/b/c is read from its FileSystem.
C32_Witness ==
    /\ last.op = "remove" /\ last.path = PathA /\ last.ret = TRUE
    /\ isNull(FileSystem_findNode(filesystems[rootFS], PathA, Slash))
    /\ mountedAt(PathAB)
    /\ routed(PathABC) = [fs |-> fsMountedAt(PathAB), relativePath |-> PathC]
    /\ ~MountManager_readFile(PathABC).null

-----------------------------------------------------------------------------
(* ViewSpec: the page.  Index constructs a MountManager and hands it to    *)
(* FileExplorer, Terminal and DiskUsage as the prop mountManager.          *)
(* FileExplorer and DiskUsage read the prop once a second; Terminal takes  *)
(* no props and constructs a MountManager of its own, which its            *)
(* CommandParser calls: that one is the MountManager of the state          *)
(* variables, and the session of commands is the one of ShellSpec.         *)

\* The MountManager that Index constructs: [mounts, filesystems,
\* currentDirectory], as the constructor leaves them.  The components that
\* hold it call getFileSystemTree and getMounts only, so it stays as it is.
Index_mountManager ==
    [mounts |-> <<[path |-> Slash, filesystem |-> rootFS]>>,
     filesystems |-> [i \in {rootFS} |-> FileSystem_new("root", "ext4")],
     currentDirectory |-> Slash]

\* The prop mountManager of FileExplorer and of DiskUsage.
FileExplorer_mountManager == Index_mountManager

DiskUsage_mountManager == Index_mountManager

\* processMountPoints and getFileSystemTree, called on a given MountManager.
RECURSIVE processMountsLoopOf(_, _, _, _)
processMountsLoopOf(manager, remaining, processedNode, path) ==
    IF remaining = <<>> THEN processedNode
    ELSE LET mount == Head(remaining)
             relativeMountPath ==
                 substring(mount.path,
                           IF Len(path) = 1 THEN 1 ELSE Len(path) + 1)
             segments == split(relativeMountPath)
             mountedRoot ==
                 FileSystem_findNode(manager.filesystems[mount.filesystem],
                                     Slash, Slash)
         IN IF /\ mount.path # Slash
               /\ (mount.path = path \/ startsWith(mount.path, path \o Slash))
               /\ segments[1] = EmptyString
               /\ ~isNull(mountedRoot)
            THEN mountedRoot
            ELSE processMountsLoopOf(manager, Tail(remaining), processedNode, path)

getFileSystemTreeOf(manager) ==
    LET rootNode == FileSystem_findNode(manager.filesystems[rootFS], Slash, Slash)
    IN IF rootNode.type # DIRECTORY THEN rootNode
       ELSE processMountsLoopOf(manager, manager.mounts, rootNode, Slash)

\* The paths of getMounts(), called on a given MountManager.
getMountPathsOf(manager) ==
    [i \in 1..Len(manager.mounts) |-> manager.mounts[i].path]

\* FileExplorer's refreshFileSystem: the tree it sets as its state.
RefreshFileSystem ==
    /\ calls < MaxShellCalls
    /\ Called("refreshFileSystem", EmptyString,
              getFileSystemTreeOf(FileExplorer_mountManager))
    /\ UNCHANGED <<mounts, filesystems, currentDirectory, discarded>>

\* DiskUsage's calculateStats and rendering: the tree it counts and the
\* mounts it lists.
CalculateStats ==
    /\ calls < MaxShellCalls
    /\ Called("calculateStats", EmptyString,
              [rootNode |-> getFileSystemTreeOf(DiskUsage_mountManager),
               mounts |-> getMountPathsOf(DiskUsage_mountManager)])
    /\ UNCHANGED <<mounts, filesystems, currentDirectory, discarded>>

ViewNext ==
    \/ ShellNext
    \/ RefreshFileSystem
    \/ CalculateStats

ViewSpec == Init /\ [][ViewNext]_vars

-----------------------------------------------------------------------------
(* C33: the views and the terminal share one MountManager.  In every       *)
(* state, the tree FileExplorer has just obtained is the tree of the       *)
(* MountManager the terminal's commands are called on, and so are the tree *)
(* and the mounts DiskUsage has just obtained: what a command has changed  *)
(* is in the next tree of the views.                                       *)

C33_ViewsShareTheMountManager ==
    /\ last.op = "refreshFileSystem" =>
          last.ret = MountManager_getFileSystemTree
    /\ last.op = "calculateStats" =>
          /\ last.ret.rootNode = MountManager_getFileSystemTree
          /\ last.ret.mounts = [i \in 1..Len(mounts) |-> mounts[i].path]

-----------------------------------------------------------------------------
(* TokenizeSpec: parseCommand splitting a command line into parts.  The    *)
(* line is any string over LineAlphabet of at most MaxLineLen characters;  *)
(* the call records the line and the parts.                                *)

\* The length of the longest command line.
MaxLineLen == 4

\* The number of command lines a run of TokenizeSpec splits: the parts of a
\* line depend on nothing but the line.
MaxParseCalls == 1

Backslash == "\\"

DoubleQuote == "\""

SingleQuote == "'"

Space == " "

LineAlphabet == {"a", Space, DoubleQuote, SingleQuote, Backslash}

CommandLines == UNION {[1..n -> LineAlphabet] : n \in 0..MaxLineLen}

\* The loop of parseCommand that keeps the quote characters in the part.
RECURSIVE tokenizeLoop_keepingQuotes(_, _, _, _, _, _)
tokenizeLoop_keepingQuotes(cmdLine, i, parts, currentPart, inQuotes, escaping) ==
    IF i > Len(cmdLine)
    THEN IF currentPart # EmptyString THEN Append(parts, currentPart) ELSE parts
    ELSE LET char == cmdLine[i]
         IN IF escaping
            THEN tokenizeLoop_keepingQuotes(cmdLine, i + 1, parts,
                                            Append(currentPart, char), inQuotes, FALSE)
            ELSE IF char = Backslash
            THEN tokenizeLoop_keepingQuotes(cmdLine, i + 1, parts, currentPart,
                                            inQuotes, TRUE)
            ELSE IF char = DoubleQuote \/ char = SingleQuote
            THEN tokenizeLoop_keepingQuotes(cmdLine, i + 1, parts,
                                            Append(currentPart, char), ~inQuotes, FALSE)
            ELSE IF char = Space /\ ~inQuotes
            THEN tokenizeLoop_keepingQuotes(
                     cmdLine, i + 1,
                     IF currentPart # EmptyString
                     THEN Append(parts, currentPart) ELSE parts,
                     EmptyString, inQuotes, FALSE)
            ELSE tokenizeLoop_keepingQuotes(cmdLine, i + 1, parts,
                                            Append(currentPart, char), inQuotes, FALSE)

\* The loop of parseCommand over cmdLine, from the i-th character on, and
\* the push of the last part: the parts.
RECURSIVE tokenizeLoop(_, _, _, _, _, _)
tokenizeLoop(cmdLine, i, parts, currentPart, inQuotes, escaping) ==
    IF i > Len(cmdLine)
    THEN IF currentPart # EmptyString THEN Append(parts, currentPart) ELSE parts
    ELSE LET char == cmdLine[i]
         IN IF escaping
            THEN tokenizeLoop(cmdLine, i + 1, parts,
                              Append(currentPart, char), inQuotes, FALSE)
            ELSE IF char = Backslash
            THEN tokenizeLoop(cmdLine, i + 1, parts, currentPart, inQuotes, TRUE)
            ELSE IF char = DoubleQuote \/ char = SingleQuote
            THEN tokenizeLoop(cmdLine, i + 1, parts, currentPart, ~inQuotes, FALSE)
            ELSE IF char = Space /\ ~inQuotes
            THEN tokenizeLoop(
                     cmdLine, i + 1,
                     IF currentPart # EmptyString
                     THEN Append(parts, currentPart) ELSE parts,
                     EmptyString, inQuotes, FALSE)
            ELSE tokenizeLoop(cmdLine, i + 1, parts,
                              Append(currentPart, char), inQuotes, FALSE)

\* The parts parseCommand splits cmdLine into.
tokenize(cmdLine) == tokenizeLoop(cmdLine, 1, <<>>, EmptyString, FALSE, FALSE)

TokenizeInit ==
    /\ mounts = <<[path |-> Slash, filesystem |-> rootFS]>>
    /\ filesystems = [i \in {rootFS} |-> FileSystem_new("root", "ext4")]
    /\ currentDirectory = Slash
    /\ last = [op |-> "constructor", path |-> EmptyString, ret |-> <<>>]
    /\ calls = 0
    /\ discarded = {}

ParseCommand ==
    /\ calls < MaxParseCalls
    /\ \E cmdLine \in CommandLines :
        /\ last' = [op |-> "parseCommand", path |-> cmdLine,
                    ret |-> tokenize(cmdLine)]
        /\ calls' = calls + 1
        /\ UNCHANGED <<mounts, filesystems, currentDirectory, discarded>>

TokenizeNext == ParseCommand

TokenizeSpec == TokenizeInit /\ [][TokenizeNext]_vars

-----------------------------------------------------------------------------
(* C34: the parts of a command line.  For every line, parseCommand gives   *)
(* these parts: a character is escaped when an odd number of backslashes   *)
(* stands right before it; a quote character of either kind that is not    *)
(* escaped switches the one quoting state; a space that is neither escaped *)
(* nor inside quotes separates; the characters kept are the escaped ones,  *)
(* whatever they are, the letters, and the spaces inside quotes; and the   *)
(* parts are the runs of kept characters between the separating spaces,    *)
(* in order, no part being empty.  A quote left open and a backslash at    *)
(* the end add nothing.                                                    *)

\* The n-th smallest number of a set of numbers.
C34_Nth(S, n) == CHOOSE x \in S : Cardinality({y \in S : y < x}) = n - 1

C34_Escaped(line, i) ==
    Cardinality({k \in 1..(i - 1) :
                    \A j \in (i - k)..(i - 1) : line[j] = Backslash}) % 2 = 1

C34_Toggles(line, i) ==
    line[i] \in {DoubleQuote, SingleQuote} /\ ~C34_Escaped(line, i)

C34_InQuotes(line, i) ==
    Cardinality({j \in 1..(i - 1) : C34_Toggles(line, j)}) % 2 = 1

C34_Separates(line, i) ==
    line[i] = Space /\ ~C34_Escaped(line, i) /\ ~C34_InQuotes(line, i)

C34_Kept(line, i) ==
    \/ C34_Escaped(line, i)
    \/ line[i] \notin {Backslash, DoubleQuote, SingleQuote, Space}
    \/ line[i] = Space /\ C34_InQuotes(line, i)

C34_Parts(line) ==
    LET kept == {i \in 1..Len(line) : C34_Kept(line, i)}
        run(i) == Cardinality({j \in 1..(i - 1) : C34_Separates(line, j)})
        runs == {run(i) : i \in kept}
        part(r) ==
            LET P == {i \in kept : run(i) = r}
            IN [n \in 1..Cardinality(P) |-> line[C34_Nth(P, n)]]
    IN [m \in 1..Cardinality(runs) |-> part(C34_Nth(runs, m))]

C34_Tokenization ==
    last.op = "parseCommand" => last.ret = C34_Parts(last.path)

\* The line  a\ "  has been split: the escaped space is in the part, the
\* backslash and the quote left open are not.
C34_Witness ==
    /\ last.op = "parseCommand"
    /\ last.path = <<"a", Backslash, Space, DoubleQuote>>
    /\ last.ret = << <<"a", Space>> >>

====
